---- MODULE Spec2Model ----
(***************************************************************************)
(* State-machine model of the reliability layer of aplus-audit-utility:    *)
(* RateLimiter (sliding windows + circuit breaker) and execute_with_retry  *)
(* of src/core/rate_limiter.py.                                            *)
(*                                                                         *)
(* Time is in whole seconds and the clock never goes back.  Except in      *)
(* ConcurrentSpec every acquire and release is one step: the asyncio lock  *)
(* is not contended, so a call runs from its first to its last statement.  *)
(*   Spec      : callers invoke acquire() and release() directly.          *)
(*   RetrySpec : tasks run execute_with_retry; a step of a task runs from  *)
(*               one suspension (sleep, awaited operation) to the next.    *)
(*   FallbackSpec : an AIAnalyzer without a client is given finding lists  *)
(*               (src/analyzers/ai_analyzer.py, the deterministic path).   *)
(*   AnalyzerSpec : an AIAnalyzer, with or without a client, serves calls  *)
(*               of analyze_findings and generate_remediation_script; the  *)
(*               provider is reached through execute_with_retry.           *)
(*   AuditSpec : an AuditOrchestrator (src/core/orchestrator.py) runs its  *)
(*               collectors, aggregates their findings and asks the        *)
(*               analyzer for the analysis and the remediation scripts.    *)
(*   PipelineSpec : one run of an AuditOrchestrator with or without the    *)
(*               repository and the metrics collector, through all phases. *)
(*   ConcurrentSpec : several tasks acquire, work and release on one       *)
(*               RateLimiter; a task may be suspended at every await       *)
(*               inside acquire and release.                               *)
(*   TerminationSpec : one execute_with_retry call on a limiter that other *)
(*               callers have used, under fairness of the clock, the       *)
(*               sleeps and the awaited operations.                        *)
(*   CallersSpec : several execute_with_retry calls side by side.          *)
(***************************************************************************)
EXTENDS Integers, Sequences, FiniteSets, TLC

\* ---------------------------------------------------------------- bounds
MaxPerMinute == 2          \* largest max_requests_per_minute drawn in Init
MaxPerHour == 3            \* the max_requests_per_hour drawn in Init
MaxConcurrent == 2         \* largest max_concurrent_requests drawn in Init
MaxFailureThreshold == 2   \* largest failure_threshold drawn in Init
MaxSuccessThreshold == 2   \* largest success_threshold drawn in Init
MaxRequests == 3           \* cap on total_requests, for direct callers
MaxRateLimited == 1        \* cap on total_rate_limited, for direct callers
MaxFailures == 2           \* cap on total_failures, for direct callers
TimeStep == 30             \* spacing of the instants at which calls are made
NumTasks == 1              \* tasks that call execute_with_retry
MaxRetries == 2            \* largest max_retries a caller passes
MaxShort == 3              \* finding lists over every severity: up to here
MaxLong == 12              \* finding lists over two severities: up to here
AIMaxPerMinute == 4        \* AIConfig.max_requests_per_minute of an analyzer
AIMaxPerHour == 5          \* largest AIConfig.max_requests_per_hour
AIMaxConcurrent == 1       \* AIConfig.max_concurrent_requests of an analyzer
MaxApiCalls == 2           \* cap on total_api_calls
MaxApiErrors == 2          \* cap on total_api_errors
NumWorkers == 3            \* tasks that share one limiter
NumCallers == 2            \* execute_with_retry calls that run side by side
MaxCollectors == 2         \* collectors registered with an orchestrator

\* ------------------------------------------------------ program constants
MinuteSeconds == 60        \* timedelta(minutes=1)
HourSeconds == 3600        \* timedelta(hours=1)
DefaultTimeoutSeconds == 60
CriticalIssuesLimit == 10  \* critical_issues = [...][:10]
DefaultMaxRetries == 3     \* execute_with_retry(..., max_retries: int = 3)
RemediationLimit == 10     \* for finding in priority_findings[:10]

\* CircuitState
CLOSED == "closed"
OPEN == "open"
HALF_OPEN == "half_open"
CircuitState == {CLOSED, OPEN, HALF_OPEN}

\* Optional[datetime] = None; every datetime of the model is >= 0
None == -1

\* RateLimitConfig: the configurations a limiter is constructed with (every
\* value positive; the two largest values of each range are drawn)
RateLimitConfig ==
    [max_requests_per_minute : (MaxPerMinute - 1)..MaxPerMinute,
     max_requests_per_hour   : {MaxPerHour},
     max_concurrent_requests : (MaxConcurrent - 1)..MaxConcurrent,
     failure_threshold       : (MaxFailureThreshold - 1)..MaxFailureThreshold,
     success_threshold       : (MaxSuccessThreshold - 1)..MaxSuccessThreshold,
     timeout_seconds         : {TimeStep, DefaultTimeoutSeconds},
     request_timeout_seconds : {TimeStep}]

Tasks == 1..NumTasks

\* The instants at which the clock (datetime.utcnow()) is read
Instants ==
    {0, TimeStep, MinuteSeconds, MinuteSeconds + TimeStep,
     HourSeconds, HourSeconds + TimeStep}

VARIABLES
    config,      \* RateLimiter.config
    rl,          \* the RateLimiter instance: its fields
    clock,       \* datetime.utcnow()
    last_call,   \* the most recent call on the limiter: what it returned,
                 \* whether a release found a slot held, the circuit before
    granted,     \* history: timestamps of every acquire that returned true
    fail_streak, \* history: consecutive recorded failures since CLOSED with
                 \* failure count 0 (-1: the streak did not start there)
    succ_streak, \* history: consecutive recorded successes since HALF_OPEN
                 \* was entered (-1: not in such a run)
    tasks,       \* per task: its frame of execute_with_retry (locals and
                 \* position) and the history of that call
    analyzer,    \* the AIAnalyzer instance: its fields, the call it is
                 \* running and what that call gave back
    audit        \* the AuditOrchestrator instance: its configuration, its
                 \* collectors, audit_results and the position of its run

vars ==
    <<config, rl, clock, last_call, granted, fail_streak, succ_streak, tasks,
      analyzer, audit>>

\* RateLimiter.__init__
RateLimiterInit ==
    [minute_requests    |-> <<>>,
     hour_requests      |-> <<>>,
     concurrent_count   |-> 0,
     circuit_state      |-> CLOSED,
     failure_count      |-> 0,
     success_count      |-> 0,
     circuit_opened_at  |-> None,
     total_requests     |-> 0,
     total_failures     |-> 0,
     total_rate_limited |-> 0,
     total_circuit_opens |-> 0]

\* ------------------------------------------------------------ pure helpers
RECURSIVE popleft_while_inclusive(_, _)
\* mutant: an entry exactly as old as the window is dropped too
popleft_while_inclusive(q, cutoff) ==
    IF q # <<>> /\ Head(q) <= cutoff
    THEN popleft_while_inclusive(Tail(q), cutoff) ELSE q

RECURSIVE popleft_while(_, _)
\* while q and q[0] < cutoff: q.popleft()
popleft_while(q, cutoff) ==
    IF q # <<>> /\ Head(q) < cutoff THEN popleft_while(Tail(q), cutoff) ELSE q

\* RateLimiter._cleanup_old_requests
cleanup_old_requests(r, now) ==
    [r EXCEPT !.minute_requests = popleft_while(@, now - MinuteSeconds),
              !.hour_requests   = popleft_while(@, now - HourSeconds)]

\* mutant: the circuit stays OPEN until more than timeout_seconds have passed
check_circuit_strict(r, cfg, now) ==
    IF r.circuit_state = CLOSED THEN [rl |-> r, allowed |-> TRUE]
    ELSE IF r.circuit_state = OPEN THEN
        IF r.circuit_opened_at # None
           /\ now - r.circuit_opened_at > cfg.timeout_seconds
        THEN [rl |-> [r EXCEPT !.circuit_state = HALF_OPEN,
                               !.success_count = 0],
              allowed |-> TRUE]
        ELSE [rl |-> r, allowed |-> FALSE]
    ELSE [rl |-> r, allowed |-> TRUE]

\* mutant: entering HALF_OPEN keeps the old success count
check_circuit_keep_count(r, cfg, now) ==
    IF r.circuit_state = CLOSED THEN [rl |-> r, allowed |-> TRUE]
    ELSE IF r.circuit_state = OPEN THEN
        IF r.circuit_opened_at # None
           /\ now - r.circuit_opened_at >= cfg.timeout_seconds
        THEN [rl |-> [r EXCEPT !.circuit_state = HALF_OPEN],
              allowed |-> TRUE]
        ELSE [rl |-> r, allowed |-> FALSE]
    ELSE [rl |-> r, allowed |-> TRUE]

\* RateLimiter._check_circuit: the limiter after the check and its verdict
check_circuit(r, cfg, now) ==
    IF r.circuit_state = CLOSED THEN [rl |-> r, allowed |-> TRUE]
    ELSE IF r.circuit_state = OPEN THEN
        IF r.circuit_opened_at # None
           /\ now - r.circuit_opened_at >= cfg.timeout_seconds
        THEN [rl |-> [r EXCEPT !.circuit_state = HALF_OPEN,
                               !.success_count = 0],
              allowed |-> TRUE]
        ELSE [rl |-> r, allowed |-> FALSE]
    ELSE [rl |-> r, allowed |-> TRUE]

\* mutant: closing the circuit keeps the failure count
record_success_keep_failures(r, cfg) ==
    IF r.circuit_state = HALF_OPEN THEN
        IF r.success_count + 1 >= cfg.success_threshold
        THEN [r EXCEPT !.circuit_state = CLOSED,
                       !.success_count = 0]
        ELSE [r EXCEPT !.success_count = @ + 1]
    ELSE IF r.failure_count > 0 THEN [r EXCEPT !.failure_count = 0] ELSE r

\* mutant: a success outside HALF_OPEN leaves the failure count alone
record_success_no_reset(r, cfg) ==
    IF r.circuit_state = HALF_OPEN THEN
        IF r.success_count + 1 >= cfg.success_threshold
        THEN [r EXCEPT !.circuit_state = CLOSED,
                       !.failure_count = 0,
                       !.success_count = 0]
        ELSE [r EXCEPT !.success_count = @ + 1]
    ELSE r

\* RateLimiter._record_success
record_success(r, cfg) ==
    IF r.circuit_state = HALF_OPEN THEN
        IF r.success_count + 1 >= cfg.success_threshold
        THEN [r EXCEPT !.circuit_state = CLOSED,
                       !.failure_count = 0,
                       !.success_count = 0]
        ELSE [r EXCEPT !.success_count = @ + 1]
    ELSE IF r.failure_count > 0 THEN [r EXCEPT !.failure_count = 0] ELSE r

\* mutant: the circuit opens one failure late
record_failure_late(r, cfg, now) ==
    LET f == [r EXCEPT !.total_failures = @ + 1] IN
    IF f.circuit_state = HALF_OPEN THEN
        [f EXCEPT !.circuit_state = OPEN,
                  !.circuit_opened_at = now,
                  !.total_circuit_opens = @ + 1]
    ELSE IF f.circuit_state = CLOSED THEN
        IF f.failure_count + 1 > cfg.failure_threshold
        THEN [f EXCEPT !.failure_count = @ + 1,
                       !.circuit_state = OPEN,
                       !.circuit_opened_at = now,
                       !.total_circuit_opens = @ + 1]
        ELSE [f EXCEPT !.failure_count = @ + 1]
    ELSE f

\* mutant: a relapse from HALF_OPEN keeps the old open timestamp
record_failure_stale_timestamp(r, cfg, now) ==
    LET f == [r EXCEPT !.total_failures = @ + 1] IN
    IF f.circuit_state = HALF_OPEN THEN
        [f EXCEPT !.circuit_state = OPEN,
                  !.total_circuit_opens = @ + 1]
    ELSE IF f.circuit_state = CLOSED THEN
        IF f.failure_count + 1 >= cfg.failure_threshold
        THEN [f EXCEPT !.failure_count = @ + 1,
                       !.circuit_state = OPEN,
                       !.circuit_opened_at = now,
                       !.total_circuit_opens = @ + 1]
        ELSE [f EXCEPT !.failure_count = @ + 1]
    ELSE f

\* mutant: a relapse from HALF_OPEN is not counted as an opening
record_failure_relapse_uncounted(r, cfg, now) ==
    LET f == [r EXCEPT !.total_failures = @ + 1] IN
    IF f.circuit_state = HALF_OPEN THEN
        [f EXCEPT !.circuit_state = OPEN,
                  !.circuit_opened_at = now]
    ELSE IF f.circuit_state = CLOSED THEN
        IF f.failure_count + 1 >= cfg.failure_threshold
        THEN [f EXCEPT !.failure_count = @ + 1,
                       !.circuit_state = OPEN,
                       !.circuit_opened_at = now,
                       !.total_circuit_opens = @ + 1]
        ELSE [f EXCEPT !.failure_count = @ + 1]
    ELSE f

\* mutant: a failure recorded while OPEN restarts the open timer
record_failure_restarts_timer(r, cfg, now) ==
    LET f == [r EXCEPT !.total_failures = @ + 1] IN
    IF f.circuit_state = HALF_OPEN THEN
        [f EXCEPT !.circuit_state = OPEN,
                  !.circuit_opened_at = now,
                  !.total_circuit_opens = @ + 1]
    ELSE IF f.circuit_state = CLOSED THEN
        IF f.failure_count + 1 >= cfg.failure_threshold
        THEN [f EXCEPT !.failure_count = @ + 1,
                       !.circuit_state = OPEN,
                       !.circuit_opened_at = now,
                       !.total_circuit_opens = @ + 1]
        ELSE [f EXCEPT !.failure_count = @ + 1]
    ELSE [f EXCEPT !.circuit_opened_at = now]

\* RateLimiter._record_failure
record_failure(r, cfg, now) ==
    LET f == [r EXCEPT !.total_failures = @ + 1] IN
    IF f.circuit_state = HALF_OPEN THEN
        [f EXCEPT !.circuit_state = OPEN,
                  !.circuit_opened_at = now,
                  !.total_circuit_opens = @ + 1]
    ELSE IF f.circuit_state = CLOSED THEN
        IF f.failure_count + 1 >= cfg.failure_threshold
        THEN [f EXCEPT !.failure_count = @ + 1,
                       !.circuit_state = OPEN,
                       !.circuit_opened_at = now,
                       !.total_circuit_opens = @ + 1]
        ELSE [f EXCEPT !.failure_count = @ + 1]
    ELSE f

\* mutant: a capacity rejection is also counted as a failure of the provider
acquire_penalised(r, cfg, now) ==
    LET cc == check_circuit(r, cfg, now)
        c  == cleanup_old_requests(cc.rl, now)
        limited == [c EXCEPT !.total_rate_limited = @ + 1,
                             !.failure_count = @ + 1]
    IN  IF ~cc.allowed THEN [rl |-> cc.rl, ret |-> FALSE]
        ELSE IF c.concurrent_count >= cfg.max_concurrent_requests
            THEN [rl |-> limited, ret |-> FALSE]
        ELSE IF Len(c.minute_requests) >= cfg.max_requests_per_minute
            THEN [rl |-> limited, ret |-> FALSE]
        ELSE IF Len(c.hour_requests) >= cfg.max_requests_per_hour
            THEN [rl |-> limited, ret |-> FALSE]
        ELSE [rl |-> [c EXCEPT !.minute_requests = Append(@, now),
                               !.hour_requests = Append(@, now),
                               !.concurrent_count = @ + 1,
                               !.total_requests = @ + 1],
              ret |-> TRUE]

\* mutant: a rejected request is stamped into the hour window all the same
acquire_stamp_rejected(r, cfg, now) ==
    LET cc == check_circuit(r, cfg, now)
        c  == cleanup_old_requests(cc.rl, now)
        limited == [c EXCEPT !.total_rate_limited = @ + 1,
                             !.hour_requests = Append(@, now)]
    IN  IF ~cc.allowed THEN [rl |-> cc.rl, ret |-> FALSE]
        ELSE IF c.concurrent_count >= cfg.max_concurrent_requests
            THEN [rl |-> limited, ret |-> FALSE]
        ELSE IF Len(c.minute_requests) >= cfg.max_requests_per_minute
            THEN [rl |-> limited, ret |-> FALSE]
        ELSE IF Len(c.hour_requests) >= cfg.max_requests_per_hour
            THEN [rl |-> limited, ret |-> FALSE]
        ELSE [rl |-> [c EXCEPT !.minute_requests = Append(@, now),
                               !.hour_requests = Append(@, now),
                               !.concurrent_count = @ + 1,
                               !.total_requests = @ + 1],
              ret |-> TRUE]

\* mutant: a request refused by a ceiling leaves the circuit as it found it
acquire_probe_undone(r, cfg, now) ==
    LET cc == check_circuit(r, cfg, now)
        c  == cleanup_old_requests(cc.rl, now)
        limited == [c EXCEPT !.total_rate_limited = @ + 1,
                             !.circuit_state = r.circuit_state,
                             !.success_count = r.success_count]
    IN  IF ~cc.allowed THEN [rl |-> cc.rl, ret |-> FALSE]
        ELSE IF c.concurrent_count >= cfg.max_concurrent_requests
            THEN [rl |-> limited, ret |-> FALSE]
        ELSE IF Len(c.minute_requests) >= cfg.max_requests_per_minute
            THEN [rl |-> limited, ret |-> FALSE]
        ELSE IF Len(c.hour_requests) >= cfg.max_requests_per_hour
            THEN [rl |-> limited, ret |-> FALSE]
        ELSE [rl |-> [c EXCEPT !.minute_requests = Append(@, now),
                               !.hour_requests = Append(@, now),
                               !.concurrent_count = @ + 1,
                               !.total_requests = @ + 1],
              ret |-> TRUE]

\* mutant: every request is counted, admitted or not
acquire_counts_refused(r, cfg, now) ==
    LET cc == check_circuit(r, cfg, now)
        c  == cleanup_old_requests(cc.rl, now)
        limited == [c EXCEPT !.total_rate_limited = @ + 1,
                             !.total_requests = @ + 1]
    IN  IF ~cc.allowed THEN [rl |-> cc.rl, ret |-> FALSE]
        ELSE IF c.concurrent_count >= cfg.max_concurrent_requests
            THEN [rl |-> limited, ret |-> FALSE]
        ELSE IF Len(c.minute_requests) >= cfg.max_requests_per_minute
            THEN [rl |-> limited, ret |-> FALSE]
        ELSE IF Len(c.hour_requests) >= cfg.max_requests_per_hour
            THEN [rl |-> limited, ret |-> FALSE]
        ELSE [rl |-> [c EXCEPT !.minute_requests = Append(@, now),
                               !.hour_requests = Append(@, now),
                               !.concurrent_count = @ + 1,
                               !.total_requests = @ + 1],
              ret |-> TRUE]

\* RateLimiter.acquire: the limiter after the call and the value returned
acquire(r, cfg, now) ==
    LET cc == check_circuit(r, cfg, now)
        c  == cleanup_old_requests(cc.rl, now)
        limited == [c EXCEPT !.total_rate_limited = @ + 1]
    IN  IF ~cc.allowed THEN [rl |-> cc.rl, ret |-> FALSE]
        ELSE IF c.concurrent_count >= cfg.max_concurrent_requests
            THEN [rl |-> limited, ret |-> FALSE]
        ELSE IF Len(c.minute_requests) >= cfg.max_requests_per_minute
            THEN [rl |-> limited, ret |-> FALSE]
        ELSE IF Len(c.hour_requests) >= cfg.max_requests_per_hour
            THEN [rl |-> limited, ret |-> FALSE]
        ELSE [rl |-> [c EXCEPT !.minute_requests = Append(@, now),
                               !.hour_requests = Append(@, now),
                               !.concurrent_count = @ + 1,
                               !.total_requests = @ + 1],
              ret |-> TRUE]

\* mutant: release decrements the in-flight count without looking at it
release_unguarded(r, cfg, success, now) ==
    LET d == [r EXCEPT !.concurrent_count = @ - 1]
    IN  IF success THEN record_success(d, cfg)
        ELSE record_failure(d, cfg, now)

\* mutant: the outcome is recorded whether or not a slot was held
release_records_always(r, cfg, success, now) ==
    LET d == [r EXCEPT !.concurrent_count = IF @ - 1 > 0 THEN @ - 1 ELSE 0]
    IN  IF success THEN record_success(d, cfg)
        ELSE record_failure(d, cfg, now)

\* RateLimiter.release
release(r, cfg, success, now) ==
    LET had_request == r.concurrent_count > 0
        d == IF had_request
             THEN [r EXCEPT !.concurrent_count =
                       IF @ - 1 > 0 THEN @ - 1 ELSE 0]
             ELSE r
    IN  IF ~had_request THEN d
        ELSE IF success THEN record_success(d, cfg)
        ELSE record_failure(d, cfg, now)

\* RateLimiter.get_stats; failure_rate is a fraction, 0 without requests
get_stats(r) ==
    [circuit_state |-> r.circuit_state,
     concurrent_requests |-> r.concurrent_count,
     requests_last_minute |-> Len(r.minute_requests),
     requests_last_hour |-> Len(r.hour_requests),
     total_requests |-> r.total_requests,
     total_failures |-> r.total_failures,
     total_rate_limited |-> r.total_rate_limited,
     total_circuit_opens |-> r.total_circuit_opens,
     failure_rate |-> IF r.total_requests > 0
                      THEN [num |-> r.total_failures,
                            den |-> r.total_requests]
                      ELSE [num |-> 0, den |-> 1]]

\* ------------------------------------------------- history bookkeeping
\* consecutive recorded failures counted from CLOSED with failure count 0
fail_streak_after(r, r2, success) ==
    IF r.concurrent_count = 0 THEN fail_streak
    ELSE IF success
        THEN (IF r2.circuit_state = CLOSED THEN 0 ELSE -1)
    ELSE IF fail_streak >= 0 THEN fail_streak + 1 ELSE -1

\* consecutive recorded successes counted from the entry into HALF_OPEN
succ_streak_after(r, r2, success) ==
    IF r.concurrent_count = 0 THEN succ_streak
    ELSE IF success /\ r.circuit_state = HALF_OPEN /\ succ_streak >= 0
        THEN succ_streak + 1
    ELSE -1

\* ------------------------------------------------------ execute_with_retry
\* the errors a call can hold in last_exception or raise
NoError == [type |-> "None", attempt |-> -1]
GenericError == [type |-> "Request failed after all retries", attempt |-> -1]
ErrorOf(kind, attempt) == [type |-> kind, attempt |-> attempt]

\* backoff_factor values a caller passes (1.5 is the default), as fractions
BackoffFactors == {[num |-> 3, den |-> 2]}

\* wait_time *= backoff_factor
times(w, f) == [num |-> w.num * f.num, den |-> w.den * f.den]

\* a task that is not inside execute_with_retry
IdleTask ==
    [pc |-> "idle", attempt |-> 0, max_retries |-> 0,
     backoff_factor |-> [num |-> 1, den |-> 1],
     wait_time |-> [num |-> 1, den |-> 1],
     last_exception |-> NoError, result |-> -1, raised |-> NoError,
     since |-> 0, acquires |-> 0, admitted |-> 0, outcomes |-> <<>>,
     sleeps |-> 0]

\* execute_with_retry, entry: last_exception = None, wait_time = 1.0
new_call(max_retries, backoff_factor) ==
    [IdleTask EXCEPT !.pc = "loop",
                     !.max_retries = max_retries,
                     !.backoff_factor = backoff_factor]

\* mutant: the generic error is raised whatever was captured
raise_generic(c) ==
    [c EXCEPT !.pc = "raised", !.raised = GenericError]

\* execute_with_retry, after the loop: raise last_exception or Exception(...)
raise_last(c) ==
    [c EXCEPT !.pc = "raised",
              !.raised = IF c.last_exception # NoError
                         THEN c.last_exception ELSE GenericError]

\* mutant: the operation is started whatever acquire returned
after_acquire_unchecked(c, ret, now) ==
    IF ~ret
    THEN [c EXCEPT !.pc = "running", !.since = now, !.acquires = @ + 1]
    ELSE [c EXCEPT !.pc = "running", !.since = now, !.acquires = @ + 1,
                   !.admitted = @ + 1]

\* execute_with_retry, `if not await self.acquire()`: refused, the call
\* sleeps wait_time; admitted, it starts the operation under wait_for
after_acquire(c, ret, now) ==
    IF ~ret
    THEN [c EXCEPT !.pc = "sleeping", !.since = now, !.acquires = @ + 1,
                   !.sleeps = @ + 1]
    ELSE [c EXCEPT !.pc = "running", !.since = now, !.acquires = @ + 1,
                   !.admitted = @ + 1]

\* mutant: a success releases the slot but the loop goes on
after_success_continue(c) ==
    [c EXCEPT !.pc = "sleeping", !.result = c.attempt,
              !.outcomes = Append(@, "ok")]

\* execute_with_retry, the operation returned: release(True), return result
after_success(c) ==
    [c EXCEPT !.pc = "returned", !.result = c.attempt,
              !.outcomes = Append(@, "ok")]

\* mutant: only the first error of a call is kept
after_failure_keep_first(c, kind, now) ==
    LET e == [c EXCEPT !.last_exception =
                          IF @ = NoError THEN ErrorOf(kind, c.attempt) ELSE @,
                       !.outcomes = Append(@, kind)]
    IN  IF c.attempt < c.max_retries
        THEN [e EXCEPT !.pc = "sleeping", !.since = now, !.sleeps = @ + 1]
        ELSE raise_last(e)

\* execute_with_retry, the operation raised or timed out: the error is kept,
\* release(False), then a sleep if attempt < max_retries, else the loop ends
after_failure(c, kind, now) ==
    LET e == [c EXCEPT !.last_exception = ErrorOf(kind, c.attempt),
                       !.outcomes = Append(@, kind)]
    IN  IF c.attempt < c.max_retries
        THEN [e EXCEPT !.pc = "sleeping", !.since = now, !.sleeps = @ + 1]
        ELSE raise_last(e)

\* mutant: wait_time stays what it was
after_sleep_flat(c) ==
    [c EXCEPT !.pc = "loop", !.attempt = @ + 1]

\* mutant: the loop stays at the same attempt
after_sleep_same_attempt(c) ==
    [c EXCEPT !.pc = "loop",
              !.wait_time = times(@, c.backoff_factor)]

\* execute_with_retry, a sleep ended: wait_time *= backoff_factor and the
\* for loop moves to the next attempt
after_sleep(c) ==
    [c EXCEPT !.pc = "loop",
              !.wait_time = times(@, c.backoff_factor),
              !.attempt = @ + 1]

\* -------------------------------------------------------------- AIAnalyzer
\* severity values a finding can carry; "BOGUS" stands for any other string
Severities == {"CRITICAL", "HIGH", "MEDIUM", "LOW", "INFO", "BOGUS"}

\* the findings a collector hands over: check_id and severity (the other
\* fields are free text)
Findings(seq) == [i \in DOMAIN seq |-> [check_id |-> i, severity |-> seq[i]]]

\* finding lists given to the analyzer: short ones over every severity and
\* long ones, past the limit of critical_issues, over a counted and an
\* uncounted severity
FindingLists ==
    {Findings(q) : q \in UNION {[1..n -> Severities] : n \in 0..MaxShort}}
    \cup {Findings(q) :
            q \in UNION {[1..n -> {"CRITICAL", "LOW"}] : n \in 0..MaxLong}}

\* severity_weights.get(f["severity"], 0)
severity_weights(sev) ==
    CASE sev = "CRITICAL" -> 50
      [] sev = "HIGH" -> 25
      [] sev = "MEDIUM" -> 10
      [] sev = "LOW" -> 5
      [] sev = "INFO" -> 1
      [] OTHER -> 0

RECURSIVE sum_weights(_)
\* sum(severity_weights.get(f["severity"], 0) for f in findings)
sum_weights(findings) ==
    IF findings = <<>> THEN 0
    ELSE severity_weights(Head(findings).severity) + sum_weights(Tail(findings))

min(a, b) == IF a < b THEN a ELSE b

\* q[:n]
take(q, n) == SubSeq(q, 1, min(n, Len(q)))

IsCriticalOrHigh(f) == f.severity \in {"CRITICAL", "HIGH"}

\* the recommendations of the fallback analysis
FallbackRecommendations ==
    <<"Review and address critical findings immediately",
      "Apply security patches and updates",
      "Implement recommended security controls",
      "Schedule regular security audits">>

\* mutant: the sum of the weights is returned without the cap at 100
fallback_analysis_uncapped(findings) ==
    LET critical_issues ==
            take(SelectSeq(findings, IsCriticalOrHigh), CriticalIssuesLimit)
    IN  [risk_score |-> sum_weights(findings),
         executive_summary |-> [findings |-> Len(findings),
                                critical |-> Len(critical_issues)],
         critical_issues |-> [i \in DOMAIN critical_issues |->
                                 critical_issues[i].check_id],
         recommendations |-> FallbackRecommendations]

\* AIAnalyzer._fallback_analysis; the executive summary is held as the two
\* numbers its sentence prints, critical_issues as the check_ids it lists
fallback_analysis(findings) ==
    LET critical_issues ==
            take(SelectSeq(findings, IsCriticalOrHigh), CriticalIssuesLimit)
    IN  [risk_score |-> min(100, sum_weights(findings)),
         executive_summary |-> [findings |-> Len(findings),
                                critical |-> Len(critical_issues)],
         critical_issues |-> [i \in DOMAIN critical_issues |->
                                 critical_issues[i].check_id],
         recommendations |-> FallbackRecommendations]

\* no analysis returned yet, no script returned yet, no finding passed yet
NoAnalysis == [risk_score |-> -1]
NoScript == [body |-> "none"]
NoFinding == [check_id |-> 0, severity |-> "none"]

\* the RateLimitConfig that AIAnalyzer.__init__ builds: the three ceilings of
\* its AIConfig and the fixed breaker and timeout settings
AnalyzerConfigs ==
    [max_requests_per_minute : {AIMaxPerMinute},
     max_requests_per_hour   : {1, AIMaxPerHour},
     max_concurrent_requests : {AIMaxConcurrent},
     failure_threshold       : {5},
     success_threshold       : {2},
     timeout_seconds         : {60},
     request_timeout_seconds : {30}]

\* mutant: any provider name gets a client as long as there is an API key
AIAnalyzerInit_any_provider(api_key, provider, testing_env, mock_client) ==
    [api_key |-> api_key,
     provider |-> provider,
     client |-> /\ api_key
                /\ ~(testing_env /\ ~mock_client),
     total_api_calls |-> 0,
     total_api_errors |-> 0,
     pc |-> "idle",
     findings |-> <<>>,
     finding |-> NoFinding,
     platform |-> "none",
     content |-> "none",
     result |-> NoAnalysis,
     script |-> NoScript,
     raised |-> FALSE]

\* AIAnalyzer.__init__: a client exists only with an API key and one of the
\* two supported providers, and under a test run only if it is a mock
AIAnalyzerInit(api_key, provider, testing_env, mock_client) ==
    [api_key |-> api_key,
     provider |-> provider,
     client |-> /\ api_key /\ provider \in {"anthropic", "openai"}
                /\ ~(testing_env /\ ~mock_client),
     total_api_calls |-> 0,
     total_api_errors |-> 0,
     pc |-> "idle",
     findings |-> <<>>,
     finding |-> NoFinding,
     platform |-> "none",
     content |-> "none",
     result |-> NoAnalysis,
     script |-> NoScript,
     raised |-> FALSE]

\* a call of the analyzer begins: nothing of the previous call is left
enter(a, pc) ==
    [a EXCEPT !.pc = pc, !.findings = <<>>, !.finding = NoFinding,
              !.platform = "none", !.content = "none",
              !.result = NoAnalysis, !.script = NoScript, !.raised = FALSE]

\* an analyzer constructed without an API key
NoKeyAnalyzer == AIAnalyzerInit(FALSE, "none", FALSE, FALSE)

\* the finding lists and platforms callers of a live analyzer pass
SampleFindingLists == {Findings(<<"HIGH">>), Findings(<<"CRITICAL", "LOW">>)}
Platforms == {"Windows", "Linux"}

\* what the provider's response holds where the text is expected: a JSON
\* object that passes the schema, text that is not JSON, JSON that fails
\* the schema, a value json.loads cannot take, or no text block at all
Contents == {"valid", "malformed", "invalid", "not_text", "no_text"}

\* validated.dict() of a response that passed validate_ai_response
ProviderAnalysis ==
    [risk_score |-> 42,
     executive_summary |-> [text |-> "summary written by the provider"],
     critical_issues |-> <<>>,
     recommendations |-> <<"recommendation written by the provider">>]

\* A text is the list of its pieces as a shell reads them: a word, a line
\* break, a double quote, a command substitution `$(...)`; a script has the
\* comment sign and the echo command besides.  The descriptions collectors
\* write: fixed words, or words around a value read from the system (a
\* mount point, the text of an exception)
PlainText == <<"word">>
SubstText == <<"word", "subst">>
TwoLineText == <<"word", "newline", "word">>

\* the findings callers of a live analyzer ask a script for
SampleFindings ==
    {[check_id |-> 1, severity |-> "HIGH", description |-> PlainText],
     [check_id |-> 1, severity |-> "CRITICAL", description |-> SubstText],
     [check_id |-> 2, severity |-> "HIGH", description |-> TwoLineText]}

\* finding['description']; findings built without one have a plain one
description(finding) ==
    IF "description" \in DOMAIN finding THEN finding.description
    ELSE PlainText

\* the lines of the template: `# <label> <text>` and `echo "<label> <text>"`
comment_line(text) == <<"hash", "word">> \o text \o <<"newline">>
echo_line(text) ==
    <<"echo", "quote", "word">> \o text \o <<"quote", "newline">>

\* AIAnalyzer._fallback_remediation_script: the f-string template with the
\* finding's fields put in as they are
fallback_remediation_script(finding, platform) ==
    [shebang |-> IF platform = "Windows"
                 THEN "# PowerShell Remediation Script" ELSE "#!/bin/bash",
     check_id |-> finding.check_id,
     text |-> <<"hash", "word", "newline">>
              \o comment_line(PlainText)
              \o comment_line(description(finding))
              \o <<"hash", "newline">>
              \o comment_line(PlainText)
              \o comment_line(PlainText)
              \o <<"hash", "newline">>
              \o comment_line(<<>>)
              \o comment_line(<<>>)
              \o <<"hash", "newline">>
              \o comment_line(PlainText)
              \o <<"newline">>
              \o echo_line(<<>>)
              \o echo_line(description(finding))
              \o echo_line(<<>>)]

\* the script text of a provider response with the markdown fences removed
ProviderScript == [body |-> "script written by the provider"]

\* mutant: an error of the retry executor other than a timeout is passed on
\* to the caller of analyze_findings
client_raised_propagate(a, err) ==
    IF a.pc = "analyze" /\ err.type # "TimeoutError"
    THEN [a EXCEPT !.pc = "idle", !.raised = TRUE]
    ELSE [a EXCEPT !.pc = "idle",
                   !.total_api_errors = @ + 1,
                   !.result = IF a.pc = "analyze"
                              THEN fallback_analysis(a.findings) ELSE @,
                   !.script = IF a.pc = "remediate"
                              THEN fallback_remediation_script(a.finding,
                                                               a.platform)
                              ELSE @]

\* analyze_findings / generate_remediation_script, `except Exception`: the
\* retry executor raised err; the error is counted and the fallback returned
client_raised(a, err) ==
    [a EXCEPT !.pc = "idle",
              !.total_api_errors = @ + 1,
              !.result = IF a.pc = "analyze"
                         THEN fallback_analysis(a.findings) ELSE @,
              !.script = IF a.pc = "remediate"
                         THEN fallback_remediation_script(a.finding,
                                                          a.platform)
                         ELSE @]

\* analyze_findings, after create_message / create_completion returned
analyze_response(a, content) ==
    LET got == [a EXCEPT !.pc = "idle", !.content = content]
        counted == [got EXCEPT !.total_api_calls = @ + 1]
        fallback(b) == [b EXCEPT !.total_api_errors = @ + 1,
                                 !.result = fallback_analysis(a.findings)]
    IN  CASE content = "no_text" -> fallback(got)
          [] content = "valid" -> [counted EXCEPT !.result = ProviderAnalysis]
          [] OTHER -> fallback(counted)

\* generate_remediation_script, after the provider call returned
remediation_response(a, content) ==
    LET got == [a EXCEPT !.pc = "idle", !.content = content]
    IN  IF content \in {"no_text", "not_text"}
        THEN [got EXCEPT !.total_api_errors = @ + 1,
                         !.script = fallback_remediation_script(a.finding,
                                                                a.platform)]
        ELSE [got EXCEPT !.total_api_calls = @ + 1,
                         !.script = ProviderScript]

\* the continuation of the analyzer's call once the provider call returned
client_returned(a, content) ==
    IF a.pc = "analyze" THEN analyze_response(a, content)
    ELSE remediation_response(a, content)

\* -------------------------------------------------------- AuditOrchestrator
\* mutant: a severity the table does not know sorts like CRITICAL
severity_order_unknown_first(sev) ==
    CASE sev = "CRITICAL" -> 0
      [] sev = "HIGH" -> 1
      [] sev = "MEDIUM" -> 2
      [] sev = "LOW" -> 3
      [] sev = "INFO" -> 4
      [] OTHER -> 0

\* severity_order.get(x['severity'], 999)
severity_order(sev) ==
    CASE sev = "CRITICAL" -> 0
      [] sev = "HIGH" -> 1
      [] sev = "MEDIUM" -> 2
      [] sev = "LOW" -> 3
      [] sev = "INFO" -> 4
      [] OTHER -> 999

\* x placed into the sorted list q behind every entry whose key is not
\* larger than its own
insert_sorted(q, x) ==
    LET k == Cardinality({i \in DOMAIN q :
                 severity_order(q[i].severity) <= severity_order(x.severity)})
    IN  SubSeq(q, 1, k) \o <<x>> \o SubSeq(q, k + 1, Len(q))

RECURSIVE sort_by_severity(_)
\* list.sort(key=...): stable, ascending in severity_order
sort_by_severity(q) ==
    IF q = <<>> THEN <<>>
    ELSE insert_sorted(sort_by_severity(SubSeq(q, 1, Len(q) - 1)), q[Len(q)])

\* finding['collector_name'] = collector_name, for each finding of a result
stamp(findings, name) ==
    [i \in DOMAIN findings |->
        [check_id |-> findings[i].check_id,
         severity |-> findings[i].severity,
         collector_name |-> name]]

\* d[key] = value on a dict held as the list of its entries in insertion
\* order: an existing key keeps its place and takes the new value
dict_set(d, key, value) ==
    IF \E i \in DOMAIN d : d[i].key = key
    THEN [i \in DOMAIN d |->
            IF d[i].key = key THEN [key |-> key, value |-> value] ELSE d[i]]
    ELSE Append(d, [key |-> key, value |-> value])

RECURSIVE stamped_findings(_)
\* the findings of collector_results, in the order of its entries, stamped
stamped_findings(collector_results) ==
    IF collector_results = <<>> THEN <<>>
    ELSE stamp(Head(collector_results).value.findings,
               Head(collector_results).key)
            \o stamped_findings(Tail(collector_results))

\* AuditOrchestrator._aggregate_findings on audit_results ar
aggregate_findings(ar) ==
    [ar EXCEPT
        !.all_findings =
            sort_by_severity(@ \o stamped_findings(ar.collector_results))]

\* AuditOrchestrator._init_audit_results: a fresh container; collector_results
\* is a dict, held as the list of its entries in insertion order
init_audit_results(platform) ==
    [platform |-> platform,
     collector_results |-> <<>>,
     all_findings |-> <<>>,
     ai_analysis |-> NoAnalysis,
     remediation_scripts |-> <<>>]

\* no orchestrator has been constructed
NoAudit == [pc |-> "none"]

\* names under which collectors register, and what one collector can hand
\* back from safe_collect: a result with its status and findings
CollectorNames == {"hardware", "security"}
LongFindings ==
    Findings([i \in 1..MaxLong |->
                IF i = 1 THEN "LOW"
                ELSE IF i % 2 = 0 THEN "HIGH" ELSE "CRITICAL"])
CollectorResults ==
    {[status |-> "success", findings |-> Findings(q)] :
        q \in {<<>>, <<"MEDIUM">>, <<"BOGUS", "CRITICAL">>}}
    \cup {[status |-> "success", findings |-> LongFindings]}
    \cup {[status |-> "failed", findings |-> <<>>]}

\* a collector that has not finished, and one whose safe_collect raised
Pending == [status |-> "pending"]
Raised == [status |-> "raised"]

\* AuditOrchestrator.__init__; repository: the database was initialised.
\* completed and phases are the history of the current run: the collectors
\* in the order in which they finished and the phases in the order in which
\* they began; saved and recorded tell how phases 6 and 7 ended
AuditOrchestratorInit(parallel_execution, generate_remediation, platform, metrics_enabled, repository) ==
    [pc |-> "idle",
     parallel_execution |-> parallel_execution,
     generate_remediation |-> generate_remediation,
     metrics_enabled |-> metrics_enabled,
     repository |-> repository,
     collectors |-> <<>>,
     results |-> <<>>,
     completed |-> <<>>,
     phases |-> <<>>,
     saved |-> "no",
     recorded |-> "no",
     audit_results |-> init_audit_results(platform),
     priority_findings |-> <<>>,
     analyze_calls |-> 0,
     script_calls |-> 0]

\* mutant: a run goes on with the container of the run before
start_run_keep_results(o) ==
    [o EXCEPT !.pc = "collecting",
              !.results = [i \in DOMAIN o.collectors |-> Pending],
              !.completed = <<>>,
              !.phases = <<"collection">>,
              !.saved = "no",
              !.recorded = "no",
              !.priority_findings = <<>>,
              !.analyze_calls = 0,
              !.script_calls = 0]

\* run_audit_async, entry: the container is replaced and collection starts
start_run(o) ==
    [o EXCEPT !.pc = "collecting",
              !.results = [i \in DOMAIN o.collectors |-> Pending],
              !.completed = <<>>,
              !.phases = <<"collection">>,
              !.saved = "no",
              !.recorded = "no",
              !.audit_results = init_audit_results(@.platform),
              !.priority_findings = <<>>,
              !.analyze_calls = 0,
              !.script_calls = 0]

\* mutant: the results come in the order in which the collectors finished
gathered_as_completed(o) ==
    [k \in DOMAIN o.completed |-> o.results[o.completed[k]]]

\* _run_collectors, `results`: asyncio.gather and the sequential loop both
\* give the results in the order of self.collectors
gathered(o) == o.results

\* mutant: the first exception ends the storing loop
store_results_abort(collector_results, collectors, results) ==
    LET stop == IF \E i \in DOMAIN results : results[i] = Raised
                THEN (CHOOSE i \in DOMAIN results :
                         /\ results[i] = Raised
                         /\ \A j \in 1..(i - 1) : results[j] # Raised) - 1
                ELSE Len(results)
        RECURSIVE go(_, _)
        go(d, i) == IF i > stop THEN d
                    ELSE go(dict_set(d, collectors[i], results[i]), i + 1)
    IN  go(collector_results, 1)

RECURSIVE store_results(_, _, _)
\* _run_collectors, the loop over zip(collectors, results): a result is
\* stored under the collector's name, an exception is logged and skipped
store_results(collector_results, collectors, results) ==
    IF collectors = <<>> THEN collector_results
    ELSE store_results(
            IF Head(results) = Raised THEN collector_results
            ELSE dict_set(collector_results, Head(collectors), Head(results)),
            Tail(collectors), Tail(results))

\* mutant: the analyzer is asked whatever the list holds
needs_analysis_always(ar) == TRUE

\* run_audit_async, phase 3: `if self.audit_results['all_findings']`
needs_analysis(ar) == ar.all_findings # <<>>

\* mutant: the database write comes before the metrics are finalized
finish_run_save_first(o, save_raises, record_raises) ==
    LET saved == [o EXCEPT
                    !.phases = IF o.repository
                               THEN Append(@, "persistence") ELSE @,
                    !.saved = IF ~o.repository THEN "no"
                              ELSE IF save_raises THEN "failed" ELSE "yes"]
        finalized == [saved EXCEPT
                        !.phases = IF o.metrics_enabled
                                   THEN Append(@, "finalize_metrics") ELSE @]
    IN  IF ~o.metrics_enabled THEN [finalized EXCEPT !.pc = "done"]
        ELSE IF record_raises
        THEN [finalized EXCEPT !.pc = "raised",
                               !.phases = Append(@, "record_metrics"),
                               !.recorded = "failed"]
        ELSE [finalized EXCEPT !.pc = "done",
                               !.phases = Append(@, "record_metrics"),
                               !.recorded = "yes"]

\* run_audit_async, phases 5 to 7 and the return: the metrics are finalized,
\* the run is saved (a save that raises is logged) and the metrics are
\* recorded (a record that raises ends the run in the outer `except`, which
\* logs and re-raises); otherwise audit_results is returned
finish_run(o, save_raises, record_raises) ==
    LET finalized == [o EXCEPT
                        !.phases = IF o.metrics_enabled
                                   THEN Append(@, "finalize_metrics") ELSE @]
        saved == [finalized EXCEPT
                    !.phases = IF o.repository
                               THEN Append(@, "persistence") ELSE @,
                    !.saved = IF ~o.repository THEN "no"
                              ELSE IF save_raises THEN "failed" ELSE "yes"]
    IN  IF ~o.metrics_enabled THEN [saved EXCEPT !.pc = "done"]
        ELSE IF record_raises
        THEN [saved EXCEPT !.pc = "raised",
                           !.phases = Append(@, "record_metrics"),
                           !.recorded = "failed"]
        ELSE [saved EXCEPT !.pc = "done",
                           !.phases = Append(@, "record_metrics"),
                           !.recorded = "yes"]

\* the analysis of a run without findings
HealthyAnalysis ==
    [risk_score |-> 0,
     executive_summary |->
        [text |-> "No security or configuration issues detected."],
     critical_issues |-> <<>>,
     recommendations |-> <<"Continue regular monitoring and updates">>]

\* mutant: a script is asked for every CRITICAL and HIGH finding
priority_findings_uncapped(ar) == SelectSeq(ar.all_findings, IsCriticalOrHigh)

\* _generate_remediation_scripts: the CRITICAL and HIGH findings, the first
\* ten of them
priority_findings(ar) ==
    take(SelectSeq(ar.all_findings, IsCriticalOrHigh), RemediationLimit)

\* ----------------------------------------------------------------- actions
Init ==
    /\ config \in RateLimitConfig
    /\ rl = RateLimiterInit
    /\ clock = 0
    /\ last_call = [op |-> "init", ret |-> FALSE, held |-> FALSE,
                    pre |-> CLOSED]
    /\ granted = <<>>
    /\ fail_streak = 0
    /\ succ_streak = -1
    /\ tasks = [t \in Tasks |-> IdleTask]
    /\ analyzer = NoKeyAnalyzer
    /\ audit = NoAudit

\* time passes between two calls
Advance ==
    /\ \E t \in Instants : t > clock /\ clock' = t
    /\ UNCHANGED <<config, rl, last_call, granted, fail_streak, succ_streak,
                   tasks, analyzer, audit>>

\* the limiter runs acquire() with outcome a, and the histories follow
AcquireCall(a) ==
    /\ rl' = a.rl
    /\ last_call' = [op |-> "acquire", ret |-> a.ret, held |-> FALSE,
                     pre |-> rl.circuit_state]
    /\ granted' = IF a.ret THEN Append(granted, clock) ELSE granted
    /\ succ_streak' =
          IF rl.circuit_state = OPEN /\ a.rl.circuit_state = HALF_OPEN
          THEN 0 ELSE succ_streak
    /\ UNCHANGED fail_streak

\* the limiter runs release(success), and the histories follow
ReleaseCall(success) ==
    LET r2 == release(rl, config, success, clock) IN
        /\ rl' = r2
        /\ last_call' = [op |-> IF success THEN "release_true"
                                ELSE "release_false",
                         ret |-> FALSE,
                         held |-> rl.concurrent_count > 0,
                         pre |-> rl.circuit_state]
        /\ fail_streak' = fail_streak_after(rl, r2, success)
        /\ succ_streak' = succ_streak_after(rl, r2, success)
        /\ UNCHANGED granted

\* a caller awaits rate_limiter.acquire()
Acquire ==
    /\ LET a == acquire(rl, config, clock) IN
        /\ a.rl.total_requests <= MaxRequests
        /\ a.rl.total_rate_limited <= MaxRateLimited
        /\ AcquireCall(a)
    /\ UNCHANGED <<config, clock, tasks, analyzer, audit>>

\* a caller awaits rate_limiter.release(success)
Release(success) ==
    /\ success \in BOOLEAN
    /\ release(rl, config, success, clock).total_failures <= MaxFailures
    /\ ReleaseCall(success)
    /\ UNCHANGED <<config, clock, tasks, analyzer, audit>>

ReleaseSuccess == Release(TRUE)
ReleaseFailure == Release(FALSE)

Next == Advance \/ Acquire \/ ReleaseSuccess \/ ReleaseFailure

Spec == Init /\ [][Next]_vars

\* ---- tasks running execute_with_retry on the one limiter
\* the top of the for loop for frame c of task t: the next attempt's
\* acquire, or the raise once the attempts are used up
Iterate(t, c) ==
    IF c.attempt > c.max_retries
    THEN /\ tasks' = [tasks EXCEPT ![t] = raise_last(c)]
         /\ UNCHANGED <<rl, last_call, granted, fail_streak, succ_streak>>
    ELSE LET a == acquire(rl, config, clock) IN
         /\ AcquireCall(a)
         /\ tasks' = [tasks EXCEPT ![t] = after_acquire(c, a.ret, clock)]

\* task t calls execute_with_retry(func, max_retries=n, backoff_factor=f)
\* and runs up to its first suspension
Call(t) ==
    /\ tasks[t].pc \in {"idle", "returned", "raised"}
    /\ \E n \in 0..MaxRetries, f \in BackoffFactors :
          Iterate(t, new_call(n, f))
    /\ UNCHANGED <<config, clock>>

\* asyncio.sleep(wait_time) of task t ends, not before wait_time has passed,
\* and the task runs up to its next suspension
Wake(t) ==
    /\ tasks[t].pc = "sleeping"
    /\ (clock - tasks[t].since) * tasks[t].wait_time.den
          >= tasks[t].wait_time.num
    /\ Iterate(t, after_sleep(tasks[t]))
    /\ UNCHANGED <<config, clock>>

\* the operation of task t returns within request_timeout_seconds
OpReturn(t) ==
    /\ tasks[t].pc = "running"
    /\ clock - tasks[t].since <= config.request_timeout_seconds
    /\ ReleaseCall(TRUE)
    /\ tasks' = [tasks EXCEPT ![t] = after_success(tasks[t])]
    /\ UNCHANGED <<config, clock>>

\* mutant: an operation that raises keeps its slot
OpRaise_leaky(t) ==
    /\ tasks[t].pc = "running"
    /\ clock - tasks[t].since <= config.request_timeout_seconds
    /\ tasks' = [tasks EXCEPT ![t] =
                    after_failure(tasks[t], "Exception", clock)]
    /\ UNCHANGED <<config, clock, rl, last_call, granted, fail_streak,
                   succ_streak>>

\* the operation of task t raises within request_timeout_seconds
OpRaise(t) ==
    /\ tasks[t].pc = "running"
    /\ clock - tasks[t].since <= config.request_timeout_seconds
    /\ ReleaseCall(FALSE)
    /\ tasks' = [tasks EXCEPT ![t] =
                    after_failure(tasks[t], "Exception", clock)]
    /\ UNCHANGED <<config, clock>>

\* mutant: a timeout gives the slot back as a success
OpTimeout_lenient(t) ==
    /\ tasks[t].pc = "running"
    /\ clock - tasks[t].since >= config.request_timeout_seconds
    /\ ReleaseCall(TRUE)
    /\ tasks' = [tasks EXCEPT ![t] =
                    after_failure(tasks[t], "TimeoutError", clock)]
    /\ UNCHANGED <<config, clock>>

\* wait_for cuts the operation of task t off at request_timeout_seconds
OpTimeout(t) ==
    /\ tasks[t].pc = "running"
    /\ clock - tasks[t].since >= config.request_timeout_seconds
    /\ ReleaseCall(FALSE)
    /\ tasks' = [tasks EXCEPT ![t] =
                    after_failure(tasks[t], "TimeoutError", clock)]
    /\ UNCHANGED <<config, clock>>

RetryNext ==
    \/ Advance
    \/ \E t \in DOMAIN tasks : Call(t) /\ UNCHANGED <<analyzer, audit>>
    \/ \E t \in DOMAIN tasks : Wake(t) /\ UNCHANGED <<analyzer, audit>>
    \/ \E t \in DOMAIN tasks : OpReturn(t) /\ UNCHANGED <<analyzer, audit>>
    \/ \E t \in DOMAIN tasks : OpRaise(t) /\ UNCHANGED <<analyzer, audit>>
    \/ \E t \in DOMAIN tasks : OpTimeout(t) /\ UNCHANGED <<analyzer, audit>>

RetrySpec == Init /\ [][RetryNext]_vars

\* ---- an AIAnalyzer in fallback mode, and its first call
FallbackInit ==
    /\ config \in AnalyzerConfigs
    /\ rl = RateLimiterInit
    /\ clock = 0
    /\ last_call = [op |-> "init", ret |-> FALSE, held |-> FALSE,
                    pre |-> CLOSED]
    /\ granted = <<>>
    /\ fail_streak = 0
    /\ succ_streak = -1
    /\ tasks = [t \in Tasks |-> IdleTask]
    /\ analyzer = NoKeyAnalyzer
    /\ audit = NoAudit

\* analyze_findings on an analyzer without a client: the fallback analysis
\* of the findings is returned at once
analyze_without_client(a, findings) ==
    [enter(a, "idle") EXCEPT !.findings = findings,
                             !.result = fallback_analysis(findings)]

\* a caller awaits analyze_findings(audit_data, findings) for the first time
FallbackAnalyze ==
    /\ analyzer.pc = "idle" /\ ~analyzer.client
    /\ analyzer.result = NoAnalysis
    /\ \E f \in FindingLists :
          analyzer' = analyze_without_client(analyzer, f)
    /\ UNCHANGED <<config, rl, clock, last_call, granted, fail_streak,
                   succ_streak, tasks, audit>>

FallbackSpec == FallbackInit /\ [][FallbackAnalyze]_vars

\* ---- an AIAnalyzer and its callers; the analyzer's provider call runs in
\* the frame tasks[1]
AnalyzerInit ==
    /\ config \in AnalyzerConfigs
    /\ rl = RateLimiterInit
    /\ clock = 0
    /\ last_call = [op |-> "init", ret |-> FALSE, held |-> FALSE,
                    pre |-> CLOSED]
    /\ granted = <<>>
    /\ fail_streak = 0
    /\ succ_streak = -1
    /\ tasks = [t \in Tasks |-> IdleTask]
    /\ \E api_key \in BOOLEAN, provider \in {"anthropic", "openai", "none"},
          testing_env \in BOOLEAN, mock_client \in BOOLEAN :
          analyzer = AIAnalyzerInit(api_key, provider, testing_env,
                                    mock_client)
    /\ audit = NoAudit

\* RateLimitedAPIClient.create_message / create_completion: the provider
\* call is handed to execute_with_retry with its default arguments and runs
\* up to its first suspension
CreateMessage ==
    \E f \in BackoffFactors : Iterate(1, new_call(DefaultMaxRetries, f))

\* analyze_findings(audit_data, findings) runs up to its first suspension
analyze_findings(findings) ==
    IF ~analyzer.client
    THEN /\ analyzer' = analyze_without_client(analyzer, findings)
         /\ UNCHANGED <<rl, last_call, granted, fail_streak, succ_streak,
                        tasks>>
    ELSE /\ analyzer.total_api_calls < MaxApiCalls
         /\ analyzer.total_api_errors < MaxApiErrors
         /\ CreateMessage
         /\ analyzer' = [enter(analyzer, "analyze")
                            EXCEPT !.findings = findings]

\* generate_remediation_script(finding, platform) runs up to its first
\* suspension
generate_remediation_script(finding, platform) ==
    IF ~analyzer.client
    THEN /\ analyzer' =
               [enter(analyzer, "idle") EXCEPT
                   !.finding = finding, !.platform = platform,
                   !.script = fallback_remediation_script(finding, platform)]
         /\ UNCHANGED <<rl, last_call, granted, fail_streak, succ_streak,
                        tasks>>
    ELSE /\ analyzer.total_api_calls < MaxApiCalls
         /\ analyzer.total_api_errors < MaxApiErrors
         /\ CreateMessage
         /\ analyzer' = [enter(analyzer, "remediate")
                            EXCEPT !.finding = finding,
                                   !.platform = platform]

\* a caller awaits analyze_findings(audit_data, findings)
AnalyzeFindings ==
    /\ analyzer.pc = "idle"
    /\ \E findings \in SampleFindingLists : analyze_findings(findings)
    /\ UNCHANGED <<config, clock>>

\* a caller awaits generate_remediation_script(finding, platform)
GenerateRemediationScript ==
    /\ analyzer.pc = "idle"
    /\ \E finding \in SampleFindings, platform \in Platforms :
          generate_remediation_script(finding, platform)
    /\ UNCHANGED <<config, clock>>

\* the analyzer's call goes on where the retry executor left frame c: with
\* the error it raised, or still waiting
resume(c) ==
    IF c.pc = "raised" THEN client_raised(analyzer, c.raised) ELSE analyzer

\* a sleep of the provider call ends
ClientWake ==
    /\ analyzer.pc # "idle"
    /\ Wake(1)
    /\ analyzer' = resume(tasks'[1])

\* the provider answers in time, with some content
ClientReturn ==
    /\ analyzer.pc # "idle"
    /\ OpReturn(1)
    /\ \E content \in Contents :
          analyzer' = client_returned(analyzer, content)

\* the provider call raises
ClientRaise ==
    /\ analyzer.pc # "idle"
    /\ OpRaise(1)
    /\ analyzer' = resume(tasks'[1])

\* the provider call is cut off at request_timeout_seconds
ClientTimeout ==
    /\ analyzer.pc # "idle"
    /\ OpTimeout(1)
    /\ analyzer' = resume(tasks'[1])

AnalyzerNext ==
    \/ Advance
    \/ AnalyzeFindings /\ UNCHANGED audit
    \/ GenerateRemediationScript /\ UNCHANGED audit
    \/ ClientWake /\ UNCHANGED audit
    \/ ClientReturn /\ UNCHANGED audit
    \/ ClientRaise /\ UNCHANGED audit
    \/ ClientTimeout /\ UNCHANGED audit

AnalyzerSpec == AnalyzerInit /\ [][AnalyzerNext]_vars

\* ---- an AuditOrchestrator, its collectors and its analyzer.  A step of a
\* run ends where the run awaits its collectors or the analyzer and the
\* next one begins with their answer.  The provider answers every attempt
\* that reaches it (its failures are AnalyzerSpec's); an analysis still
\* falls back when the limiter refuses all attempts or the content is bad.
PipelineInit ==
    /\ config \in AnalyzerConfigs
    /\ rl = RateLimiterInit
    /\ clock = 0
    /\ last_call = [op |-> "init", ret |-> FALSE, held |-> FALSE,
                    pre |-> CLOSED]
    /\ granted = <<>>
    /\ fail_streak = 0
    /\ succ_streak = -1
    /\ tasks = [t \in Tasks |-> IdleTask]
    /\ \E api_key \in BOOLEAN :
          analyzer = AIAnalyzerInit(api_key, "anthropic", FALSE, FALSE)
    /\ \E parallel_execution \in BOOLEAN, generate_remediation \in BOOLEAN,
          platform \in Platforms, metrics_enabled \in BOOLEAN,
          repository \in BOOLEAN :
          audit = AuditOrchestratorInit(parallel_execution,
                                        generate_remediation, platform,
                                        metrics_enabled, repository)

\* an orchestrator without a metrics collector and without a repository
AuditInit ==
    /\ PipelineInit
    /\ ~audit.metrics_enabled
    /\ ~audit.repository

\* register_collector(collector), before the first run
RegisterCollector ==
    /\ audit.pc = "idle"
    /\ Len(audit.collectors) < MaxCollectors
    /\ \E name \in CollectorNames :
          audit' = [audit EXCEPT !.collectors = Append(@, name)]
    /\ UNCHANGED <<config, rl, clock, last_call, granted, fail_streak,
                   succ_streak, tasks, analyzer>>

\* run_audit_async is called and runs up to the await on its collectors
RunAudit ==
    /\ audit.pc \in {"idle", "done", "raised"}
    /\ audit' = start_run(audit)
    /\ UNCHANGED <<config, rl, clock, last_call, granted, fail_streak,
                   succ_streak, tasks, analyzer>>

\* safe_collect of collector i ends, with a result or raising; collectors
\* run in any order under asyncio.gather and one after the other otherwise,
\* where a collector that raises ends the run
CollectorDone ==
    /\ audit.pc = "collecting"
    /\ \E i \in DOMAIN audit.results, r \in CollectorResults \cup {Raised} :
          /\ audit.results[i] = Pending
          /\ audit.parallel_execution
                \/ \A j \in 1..(i - 1) : audit.results[j] # Pending
          /\ audit' =
                IF r = Raised /\ ~audit.parallel_execution
                THEN [audit EXCEPT !.pc = "raised", !.results[i] = r,
                                   !.completed = Append(@, i)]
                ELSE [audit EXCEPT !.results[i] = r,
                                   !.completed = Append(@, i)]
    /\ UNCHANGED <<config, rl, clock, last_call, granted, fail_streak,
                   succ_streak, tasks, analyzer>>

\* _generate_remediation_scripts, the loop: the script of the next priority
\* finding is asked for, or the run returns audit_results
RemediationLoop(o) ==
    IF o.priority_findings = <<>>
    THEN /\ \E save_raises \in BOOLEAN, record_raises \in BOOLEAN :
               audit' = finish_run(o, save_raises, record_raises)
         /\ UNCHANGED <<rl, last_call, granted, fail_streak, succ_streak,
                        tasks, analyzer>>
    ELSE /\ generate_remediation_script(Head(o.priority_findings),
                                        o.audit_results.platform)
         /\ audit' = [o EXCEPT !.pc = "remediation",
                               !.script_calls = @ + 1]

\* run_audit_async, phase 4: `if generate_remediation and all_findings`
RemediationPhase(o) ==
    RemediationLoop(
        IF o.generate_remediation /\ o.audit_results.all_findings # <<>>
        THEN [o EXCEPT !.priority_findings =
                            priority_findings(o.audit_results),
                       !.phases = Append(@, "remediation")]
        ELSE [o EXCEPT !.priority_findings = <<>>])

\* every collector has finished: the results are stored and aggregated and
\* the run goes on to phase 3, the analysis, up to its next suspension
CollectionDone ==
    /\ audit.pc = "collecting"
    /\ \A i \in DOMAIN audit.results : audit.results[i] # Pending
    /\ LET ar == aggregate_findings(
                     [audit.audit_results EXCEPT !.collector_results =
                         store_results(@, audit.collectors,
                                       gathered(audit))])
           o == [audit EXCEPT
                    !.phases = @ \o <<"aggregation", "analysis">>]
       IN  IF needs_analysis(ar)
           THEN /\ analyze_findings(ar.all_findings)
                /\ audit' = [o EXCEPT !.pc = "analysis",
                                      !.audit_results = ar,
                                      !.analyze_calls = @ + 1]
           ELSE RemediationPhase(
                    [o EXCEPT !.audit_results =
                        [ar EXCEPT !.ai_analysis = HealthyAnalysis]])
    /\ UNCHANGED <<config, clock>>

\* analyze_findings has returned: its result is kept and phase 4 begins
AnalysisDone ==
    /\ audit.pc = "analysis"
    /\ analyzer.pc = "idle"
    /\ RemediationPhase(
          [audit EXCEPT !.audit_results.ai_analysis = analyzer.result])
    /\ UNCHANGED <<config, clock>>

\* generate_remediation_script has returned: the script is kept under the
\* finding's check_id and the loop goes on
ScriptDone ==
    /\ audit.pc = "remediation"
    /\ analyzer.pc = "idle"
    /\ LET finding == Head(audit.priority_findings)
           entry == [filename |->
                        [stem |-> finding.check_id,
                         ext |-> IF audit.audit_results.platform = "Windows"
                                 THEN "ps1" ELSE "sh"],
                     content |-> analyzer.script,
                     finding |-> finding]
       IN  RemediationLoop(
             [audit EXCEPT
                !.audit_results.remediation_scripts =
                    dict_set(@, finding.check_id, entry),
                !.priority_findings = Tail(@)])
    /\ UNCHANGED <<config, clock>>

\* time passes while the provider call sleeps
Sleep ==
    /\ tasks[1].pc = "sleeping"
    /\ Advance

AuditNext ==
    \/ Sleep
    \/ RegisterCollector
    \/ RunAudit
    \/ CollectorDone
    \/ CollectionDone
    \/ AnalysisDone
    \/ ScriptDone
    \/ ClientWake /\ UNCHANGED audit
    \/ ClientReturn /\ UNCHANGED audit

AuditSpec == AuditInit /\ [][AuditNext]_vars

\* ---- one audit run of an AuditOrchestrator, with or without a metrics
\* collector and a repository, from run_audit_async to its return
FirstRun ==
    /\ audit.pc = "idle"
    /\ RunAudit

PipelineNext ==
    \/ Sleep
    \/ RegisterCollector
    \/ FirstRun
    \/ CollectorDone
    \/ CollectionDone
    \/ AnalysisDone
    \/ ScriptDone
    \/ ClientWake /\ UNCHANGED audit
    \/ ClientReturn /\ UNCHANGED audit

PipelineSpec == PipelineInit /\ [][PipelineNext]_vars

\* ---- several tasks on one RateLimiter: each awaits acquire(), works while
\* it holds the slot and awaits release(success).  Every `await` inside
\* acquire and release is taken as a point where the event loop may run
\* another task; `async with self._lock` lets a task in when no other task
\* is between the lock's entry and exit.
Workers == 1..NumWorkers

\* a task before its call; entry and now are what it found when it took
\* the lock: the limiter and the time
IdleWorker ==
    [pc |-> "idle", now |-> 0, success |-> TRUE, entry |-> RateLimiterInit]

\* mutant: the lock lets every task in
lock_free_always(ts) == TRUE

\* asyncio.Lock: no task is inside acquire or release
lock_free(ts) ==
    \A w \in DOMAIN ts : ts[w].pc \notin {"admitting", "recording"}

\* acquire, from `self._cleanup_old_requests(now)` to its return
admit(r, cfg, now) ==
    LET c == cleanup_old_requests(r, now)
        limited == [c EXCEPT !.total_rate_limited = @ + 1]
    IN  IF c.concurrent_count >= cfg.max_concurrent_requests
            THEN [rl |-> limited, ret |-> FALSE]
        ELSE IF Len(c.minute_requests) >= cfg.max_requests_per_minute
            THEN [rl |-> limited, ret |-> FALSE]
        ELSE IF Len(c.hour_requests) >= cfg.max_requests_per_hour
            THEN [rl |-> limited, ret |-> FALSE]
        ELSE [rl |-> [c EXCEPT !.minute_requests = Append(@, now),
                               !.hour_requests = Append(@, now),
                               !.concurrent_count = @ + 1,
                               !.total_requests = @ + 1],
              ret |-> TRUE]

ConcurrentInit ==
    /\ config \in RateLimitConfig
    /\ rl = RateLimiterInit
    /\ clock = 0
    /\ last_call = [op |-> "init", ret |-> FALSE, held |-> FALSE,
                    pre |-> CLOSED]
    /\ granted = <<>>
    /\ fail_streak = 0
    /\ succ_streak = -1
    /\ tasks = [w \in Workers |-> IdleWorker]
    /\ analyzer = NoKeyAnalyzer
    /\ audit = NoAudit

\* task w awaits acquire(): it takes the lock, reads the clock and awaits
\* _check_circuit; an open circuit ends the call with False
AcquireEnter(w) ==
    /\ tasks[w].pc = "idle"
    /\ lock_free(tasks)
    /\ LET cc == check_circuit(rl, config, clock) IN
          /\ rl' = cc.rl
          /\ tasks' = [tasks EXCEPT
                          ![w] = [@ EXCEPT
                                    !.pc = IF cc.allowed THEN "admitting"
                                           ELSE "blocked",
                                    !.now = clock,
                                    !.entry = rl]]
    /\ UNCHANGED <<config, clock, last_call, granted, fail_streak,
                   succ_streak, analyzer, audit>>

\* acquire of task w goes on behind _check_circuit to its return
AcquireAdmit(w) ==
    /\ tasks[w].pc = "admitting"
    /\ LET a == admit(rl, config, tasks[w].now) IN
          /\ rl' = a.rl
          /\ tasks' = [tasks EXCEPT
                          ![w].pc = IF a.ret THEN "working" ELSE "blocked"]
    /\ UNCHANGED <<config, clock, last_call, granted, fail_streak,
                   succ_streak, analyzer, audit>>

\* task w, its work done, awaits release(success): it takes the lock, gives
\* its slot back and awaits _record_success or _record_failure
ReleaseEnter(w) ==
    /\ tasks[w].pc = "working"
    /\ lock_free(tasks)
    /\ \E success \in BOOLEAN :
          tasks' = [tasks EXCEPT
                      ![w] = [@ EXCEPT
                                !.pc = IF rl.concurrent_count > 0
                                       THEN "recording" ELSE "released",
                                !.success = success,
                                !.entry = rl]]
    /\ rl' = IF rl.concurrent_count > 0
             THEN [rl EXCEPT !.concurrent_count =
                                 IF @ - 1 > 0 THEN @ - 1 ELSE 0]
             ELSE rl
    /\ UNCHANGED <<config, clock, last_call, granted, fail_streak,
                   succ_streak, analyzer, audit>>

\* release of task w records the outcome and returns
ReleaseRecord(w) ==
    /\ tasks[w].pc = "recording"
    /\ rl' = IF tasks[w].success THEN record_success(rl, config)
             ELSE record_failure(rl, config, clock)
    /\ tasks' = [tasks EXCEPT ![w].pc = "released"]
    /\ UNCHANGED <<config, clock, last_call, granted, fail_streak,
                   succ_streak, analyzer, audit>>

ConcurrentNext ==
    \/ Advance
    \/ \E w \in Workers : AcquireEnter(w)
    \/ \E w \in Workers : AcquireAdmit(w)
    \/ \E w \in Workers : ReleaseEnter(w)
    \/ \E w \in Workers : ReleaseRecord(w)

ConcurrentSpec == ConcurrentInit /\ [][ConcurrentNext]_vars

\* ---- one execute_with_retry call per task on a limiter that other callers
\* have used before: they have filled windows, kept slots and tripped the
\* breaker.  Time goes on for as long as a call waits for it.
\* no task has called execute_with_retry yet
BeforeCalls == \A t \in DOMAIN tasks : tasks[t].pc = "idle"

\* other callers use the limiter before the tasks' calls, within the first
\* minute
Prepare ==
    /\ BeforeCalls
    /\ Advance \/ Acquire \/ ReleaseSuccess \/ ReleaseFailure
    /\ clock' <= MinuteSeconds

\* task t calls execute_with_retry, once
CallOnce(t) ==
    /\ tasks[t].pc = "idle"
    /\ Call(t)

\* task t waits for the clock: its sleep is not over, or its operation is
\* still within request_timeout_seconds
Waiting(t) ==
    \/ /\ tasks[t].pc = "sleeping"
       /\ (clock - tasks[t].since) * tasks[t].wait_time.den
             < tasks[t].wait_time.num
    \/ /\ tasks[t].pc = "running"
       /\ clock - tasks[t].since < config.request_timeout_seconds

\* the first whole second at which the wait of task t is over
WaitEnd(t) ==
    IF tasks[t].pc = "running"
    THEN tasks[t].since + config.request_timeout_seconds
    ELSE tasks[t].since
           + (tasks[t].wait_time.num + tasks[t].wait_time.den - 1)
               \div tasks[t].wait_time.den

\* time passes while a call waits for it, up to the end of the wait
Tick ==
    /\ \E t \in DOMAIN tasks : Waiting(t) /\ clock' = WaitEnd(t)
    /\ UNCHANGED <<config, rl, last_call, granted, fail_streak, succ_streak,
                   tasks, analyzer, audit>>

\* the awaited operation of task t ends: it returns, raises or is cut off
OpEnds(t) == OpReturn(t) \/ OpRaise(t) \/ OpTimeout(t)

TerminationNext ==
    \/ Prepare
    \/ Tick
    \/ \E t \in DOMAIN tasks : CallOnce(t) /\ UNCHANGED <<analyzer, audit>>
    \/ \E t \in DOMAIN tasks : Wake(t) /\ UNCHANGED <<analyzer, audit>>
    \/ \E t \in DOMAIN tasks : OpEnds(t) /\ UNCHANGED <<analyzer, audit>>

\* the event loop's clock goes on, every asyncio.sleep ends and every
\* awaited operation ends (wait_for cuts it off at the latest)
TerminationFairness ==
    /\ WF_vars(Tick)
    /\ \A t \in Tasks : WF_vars(Wake(t) /\ UNCHANGED <<analyzer, audit>>)
    /\ \A t \in Tasks : WF_vars(OpEnds(t) /\ UNCHANGED <<analyzer, audit>>)

TerminationSpec == Init /\ [][TerminationNext]_vars /\ TerminationFairness

\* ---- several execute_with_retry calls side by side on one limiter, one
\* call per task
Callers == 1..NumCallers

CallersInit ==
    /\ config \in RateLimitConfig
    /\ rl = RateLimiterInit
    /\ clock = 0
    /\ last_call = [op |-> "init", ret |-> FALSE, held |-> FALSE,
                    pre |-> CLOSED]
    /\ granted = <<>>
    /\ fail_streak = 0
    /\ succ_streak = -1
    /\ tasks = [t \in Callers |-> IdleTask]
    /\ analyzer = NoKeyAnalyzer
    /\ audit = NoAudit

CallersNext ==
    \/ Tick
    \/ \E t \in DOMAIN tasks : CallOnce(t) /\ UNCHANGED <<analyzer, audit>>
    \/ \E t \in DOMAIN tasks : Wake(t) /\ UNCHANGED <<analyzer, audit>>
    \/ \E t \in DOMAIN tasks : OpReturn(t) /\ UNCHANGED <<analyzer, audit>>
    \/ \E t \in DOMAIN tasks : OpRaise(t) /\ UNCHANGED <<analyzer, audit>>
    \/ \E t \in DOMAIN tasks : OpTimeout(t) /\ UNCHANGED <<analyzer, audit>>

CallersSpec == CallersInit /\ [][CallersNext]_vars

\* ------------------------------------------------------------------ claims
\* entries of a window that are not expired at `now`: not older than `window`
Unexpired(q, now, window) ==
    Cardinality({i \in DOMAIN q : q[i] >= now - window})

\* the circuit permits a request at `now`
CircuitPermits(r, cfg, now) ==
    \/ r.circuit_state = CLOSED
    \/ r.circuit_state = HALF_OPEN
    \/ /\ r.circuit_state = OPEN
       /\ r.circuit_opened_at # None
       /\ now - r.circuit_opened_at >= cfg.timeout_seconds

\* the three ceilings leave room at `now`
CapacityAvailable(r, cfg, now) ==
    /\ r.concurrent_count < cfg.max_concurrent_requests
    /\ Unexpired(r.minute_requests, now, MinuteSeconds)
          < cfg.max_requests_per_minute
    /\ Unexpired(r.hour_requests, now, HourSeconds)
          < cfg.max_requests_per_hour

\* C1: acquire() returns true if and only if the circuit permits requests
\* (CLOSED, HALF_OPEN, or OPEN for at least timeout_seconds) and, counting
\* only unexpired entries, in-flight < max_concurrent_requests, minute window
\* < max_requests_per_minute and hour window < max_requests_per_hour.
C1_AcquireIff ==
    [][Acquire =>
        (last_call'.ret <=> (/\ CircuitPermits(rl, config, clock)
                             /\ CapacityAvailable(rl, config, clock)))]_vars

\* an acquire admitted straight out of an OPEN circuit, taking the last
\* place of the minute window
C1_Witness ==
    /\ last_call.op = "acquire" /\ last_call.ret
    /\ last_call.pre = OPEN
    /\ Len(rl.minute_requests) = config.max_requests_per_minute

\* C2: in every reachable state 0 <= in-flight <= max_concurrent_requests,
\* whatever acquires and releases (matched or not) were made.
C2_InFlightBounds ==
    /\ rl.concurrent_count >= 0
    /\ rl.concurrent_count <= config.max_concurrent_requests

\* an acquire has just filled the last of two slots, after a failure was
\* recorded
C2_Witness ==
    /\ last_call.op = "acquire" /\ last_call.ret
    /\ rl.concurrent_count = config.max_concurrent_requests
    /\ config.max_concurrent_requests = MaxConcurrent
    /\ rl.total_failures > 0

\* C3: from CLOSED with failure count 0, the failure_threshold-th consecutive
\* recorded release(false) (no success in between) leaves the circuit OPEN
\* with the open timestamp set to the current time and the open-count one
\* higher; and while the circuit is OPEN for less than timeout_seconds every
\* acquire() returns false.
C3_CircuitTrip ==
    [][/\ (ReleaseFailure /\ rl.concurrent_count > 0
              /\ fail_streak' = config.failure_threshold)
          => /\ rl'.circuit_state = OPEN
             /\ rl'.circuit_opened_at = clock
             /\ rl'.total_circuit_opens = rl.total_circuit_opens + 1
       /\ (Acquire /\ rl.circuit_state = OPEN
              /\ clock - rl.circuit_opened_at < config.timeout_seconds)
          => /\ ~last_call'.ret
             /\ rl'.circuit_state = OPEN]_vars

\* the threshold was reached by two failures and an acquire was then refused
\* at a later instant, before the timeout
C3_Witness ==
    /\ fail_streak = config.failure_threshold
    /\ config.failure_threshold = MaxFailureThreshold
    /\ last_call.op = "acquire" /\ ~last_call.ret /\ last_call.pre = OPEN
    /\ rl.circuit_state = OPEN
    /\ clock > rl.circuit_opened_at

\* C4 as stated: whenever the circuit is OPEN for at least timeout_seconds
\* the next acquire() moves to HALF_OPEN with success count 0 and returns
\* true.
C4_Original ==
    [][(Acquire /\ rl.circuit_state = OPEN
           /\ clock - rl.circuit_opened_at >= config.timeout_seconds)
       => /\ rl'.circuit_state = HALF_OPEN
          /\ rl'.success_count = 0
          /\ last_call'.ret]_vars

\* C4 amended: whenever the circuit is OPEN for at least timeout_seconds the
\* next acquire() moves to HALF_OPEN with success count 0, and it returns
\* true exactly when the three ceilings leave room.
C4_RecoveryProbe ==
    [][(Acquire /\ rl.circuit_state = OPEN
           /\ clock - rl.circuit_opened_at >= config.timeout_seconds)
       => /\ rl'.circuit_state = HALF_OPEN
          /\ rl'.success_count = 0
          /\ (last_call'.ret <=> CapacityAvailable(rl, config, clock))]_vars

\* the probe acquire took the transition and was granted
C4_Witness ==
    /\ last_call.op = "acquire" /\ last_call.ret /\ last_call.pre = OPEN
    /\ rl.circuit_state = HALF_OPEN
    /\ rl.success_count = 0

\* C5: from HALF_OPEN, the success_threshold-th consecutive recorded
\* release(true) closes the circuit with the failure counter reset to 0;
\* fewer such successes leave it HALF_OPEN.
C5_CircuitClose ==
    [][(ReleaseSuccess /\ rl.concurrent_count > 0
           /\ rl.circuit_state = HALF_OPEN)
       => /\ succ_streak' >= 1
          /\ succ_streak' = config.success_threshold
               => (rl'.circuit_state = CLOSED /\ rl'.failure_count = 0)
          /\ succ_streak' < config.success_threshold
               => rl'.circuit_state = HALF_OPEN]_vars

\* two successes in HALF_OPEN have just closed the circuit
C5_Witness ==
    /\ last_call.op = "release_true" /\ last_call.held
    /\ last_call.pre = HALF_OPEN
    /\ succ_streak = config.success_threshold
    /\ config.success_threshold = MaxSuccessThreshold
    /\ rl.circuit_state = CLOSED

\* C6: one recorded release(false) in HALF_OPEN moves the circuit to OPEN,
\* sets the open timestamp to the current time and increments the open-count
\* by one, whatever number of successes HALF_OPEN had recorded; acquires are
\* then refused until timeout_seconds have elapsed from that instant.
C6_HalfOpenRelapse ==
    [][(ReleaseFailure /\ rl.concurrent_count > 0
           /\ rl.circuit_state = HALF_OPEN)
       => /\ rl'.circuit_state = OPEN
          /\ rl'.circuit_opened_at = clock
          /\ rl'.total_circuit_opens = rl.total_circuit_opens + 1
          /\ \A t \in Instants :
                (t >= clock /\ t - clock < config.timeout_seconds)
                => ~acquire(rl', config, t).ret]_vars

\* a failure in HALF_OPEN after one recorded success has reopened the circuit
C6_Witness ==
    /\ last_call.op = "release_false" /\ last_call.held
    /\ last_call.pre = HALF_OPEN
    /\ rl.circuit_state = OPEN
    /\ rl.success_count >= 1
    /\ rl.total_circuit_opens >= 2

\* C7: the granted acquires stamped within the trailing 60 s never exceed
\* max_requests_per_minute, those within the trailing 3600 s never exceed
\* max_requests_per_hour, and an acquire made while the trailing minute
\* already holds max_requests_per_minute grants returns false, also when no
\* slot is in flight.
C7_RateCeilings ==
    /\ [](/\ Unexpired(granted, clock, MinuteSeconds)
               <= config.max_requests_per_minute
          /\ Unexpired(granted, clock, HourSeconds)
               <= config.max_requests_per_hour)
    /\ [][(Acquire /\ Unexpired(granted, clock, MinuteSeconds)
                         >= config.max_requests_per_minute)
          => ~last_call'.ret]_vars

\* refused by the per-minute ceiling alone: circuit closed, nothing in
\* flight, hour window not full, and an older grant has already aged out
C7_Witness ==
    /\ last_call.op = "acquire" /\ ~last_call.ret
    /\ last_call.pre = CLOSED
    /\ rl.concurrent_count = 0
    /\ Unexpired(granted, clock, MinuteSeconds)
          = config.max_requests_per_minute
    /\ Unexpired(granted, clock, HourSeconds) < config.max_requests_per_hour
    /\ Len(granted) > config.max_requests_per_minute

\* an acquire refused by a ceiling although the circuit permitted it
CapacityRejection ==
    /\ Acquire
    /\ CircuitPermits(rl, config, clock)
    /\ ~last_call'.ret

\* C10 as stated: a capacity rejection leaves failure counter, success
\* counter and total_failures unchanged and cannot open the circuit.
C10_Original ==
    [][CapacityRejection
       => /\ rl'.failure_count = rl.failure_count
          /\ rl'.success_count = rl.success_count
          /\ rl'.total_failures = rl.total_failures
          /\ rl'.circuit_state # OPEN
          /\ rl'.total_circuit_opens = rl.total_circuit_opens]_vars

\* C10 amended: a capacity rejection leaves failure counter and
\* total_failures unchanged and cannot open the circuit; the success counter
\* is unchanged too, except that the rejected acquire that takes the circuit
\* from OPEN to HALF_OPEN resets it to 0.
C10_CapacityRejectionFrame ==
    [][CapacityRejection
       => /\ rl'.failure_count = rl.failure_count
          /\ rl'.success_count =
                (IF rl.circuit_state = OPEN THEN 0 ELSE rl.success_count)
          /\ rl'.total_failures = rl.total_failures
          /\ rl'.circuit_state # OPEN
          /\ rl'.total_circuit_opens = rl.total_circuit_opens]_vars

\* a capacity rejection with failures already counted, in a closed circuit
C10_Witness ==
    /\ last_call.op = "acquire" /\ ~last_call.ret
    /\ last_call.pre = CLOSED
    /\ rl.failure_count >= 1
    /\ rl.total_rate_limited >= 1

\* C11 as stated: every acquire() that returns false, whichever check
\* refused it (circuit, concurrency, per-minute or per-hour ceiling),
\* increments total_rate_limited by exactly one.
C11_Original ==
    [][(Acquire /\ ~last_call'.ret)
       => rl'.total_rate_limited = rl.total_rate_limited + 1]_vars

\* an acquire refused by the OPEN circuit
C11_Witness ==
    /\ last_call.op = "acquire" /\ ~last_call.ret
    /\ last_call.pre = OPEN /\ rl.circuit_state = OPEN

\* q2 is q with zero or more of its oldest entries dropped
IsSuffix(q2, q) ==
    \E k \in 0..Len(q) : q2 = SubSeq(q, k + 1, Len(q))

\* C12: an acquire() that returns false appends no timestamp to either
\* window and leaves the in-flight count and total_requests unchanged; one
\* that returns true appends the current time to both windows and increments
\* the in-flight count and total_requests by exactly one each.
C12_AcquireFrame ==
    [][Acquire =>
        IF last_call'.ret
        THEN /\ rl'.minute_requests # <<>> /\ rl'.hour_requests # <<>>
             /\ rl'.minute_requests[Len(rl'.minute_requests)] = clock
             /\ rl'.hour_requests[Len(rl'.hour_requests)] = clock
             /\ IsSuffix(SubSeq(rl'.minute_requests, 1,
                                Len(rl'.minute_requests) - 1),
                         rl.minute_requests)
             /\ IsSuffix(SubSeq(rl'.hour_requests, 1,
                                Len(rl'.hour_requests) - 1),
                         rl.hour_requests)
             /\ rl'.concurrent_count = rl.concurrent_count + 1
             /\ rl'.total_requests = rl.total_requests + 1
        ELSE /\ IsSuffix(rl'.minute_requests, rl.minute_requests)
             /\ IsSuffix(rl'.hour_requests, rl.hour_requests)
             /\ rl'.concurrent_count = rl.concurrent_count
             /\ rl'.total_requests = rl.total_requests]_vars

\* an acquire refused by a ceiling while requests are stamped in the hour
\* window and a slot is in flight
C12_Witness ==
    /\ last_call.op = "acquire" /\ ~last_call.ret
    /\ last_call.pre = CLOSED
    /\ rl.total_rate_limited >= 1
    /\ rl.hour_requests # <<>>
    /\ rl.concurrent_count >= 1

\* C13: release(success) called while nothing is in flight is a no-op, for
\* success = true and success = false: the in-flight count stays 0 and the
\* circuit state, failure counter, success counter, open timestamp,
\* total_failures and open-count are unchanged.
C13_ReleaseNoSlot ==
    [][((ReleaseSuccess \/ ReleaseFailure) /\ rl.concurrent_count = 0)
       => /\ rl'.concurrent_count = 0
          /\ rl'.circuit_state = rl.circuit_state
          /\ rl'.failure_count = rl.failure_count
          /\ rl'.success_count = rl.success_count
          /\ rl'.circuit_opened_at = rl.circuit_opened_at
          /\ rl'.total_failures = rl.total_failures
          /\ rl'.total_circuit_opens = rl.total_circuit_opens]_vars

\* a second release(false) of a slot whose failure was already counted,
\* one failure short of the threshold
C13_Witness ==
    /\ last_call.op = "release_false" /\ ~last_call.held
    /\ rl.circuit_state = CLOSED
    /\ rl.failure_count >= 1
    /\ rl.failure_count = config.failure_threshold - 1

\* every invocation of the operation made so far in the call has raised
AlwaysRaised(c) ==
    \A i \in DOMAIN c.outcomes : c.outcomes[i] = "Exception"

\* C8 as stated: a call whose operation always raises, with max_retries = n,
\* makes exactly n + 1 attempts of the operation and then raises the error of
\* the last attempt.
C8_Original ==
    \A t \in DOMAIN tasks :
        LET c == tasks[t] IN
        (c.pc = "raised" /\ AlwaysRaised(c))
        => /\ Len(c.outcomes) = c.max_retries + 1
           /\ c.raised = ErrorOf("Exception", c.max_retries)

\* C8 amended: a call whose operation always raises, with max_retries = n,
\* and none of whose acquires is refused, makes exactly n + 1 attempts of the
\* operation and then raises the error of the last attempt.
C8_RetryExhaustion ==
    \A t \in DOMAIN tasks :
        LET c == tasks[t] IN
        (c.pc = "raised" /\ AlwaysRaised(c) /\ c.admitted = c.acquires)
        => /\ Len(c.outcomes) = c.max_retries + 1
           /\ c.raised = ErrorOf("Exception", c.max_retries)

\* a call with max_retries = 2 has raised after three admitted attempts
C8_Witness ==
    \E t \in DOMAIN tasks :
        LET c == tasks[t] IN
        /\ c.pc = "raised" /\ AlwaysRaised(c)
        /\ c.max_retries = MaxRetries
        /\ c.admitted = c.acquires
        /\ Len(c.outcomes) = MaxRetries + 1

\* C9: once an attempt of the operation succeeds, that step releases the slot
\* with success = true and the call returns that attempt's result; the
\* operation is not invoked again in the call, and failures of earlier
\* attempts do not turn the outcome into an error.
C9_FirstSuccessWins ==
    /\ [](\A t \in DOMAIN tasks :
            LET c == tasks[t] IN
            (\E i \in DOMAIN c.outcomes : c.outcomes[i] = "ok")
            => /\ c.pc = "returned"
               /\ c.raised = NoError
               /\ c.result = c.attempt
               /\ c.admitted = Len(c.outcomes)
               /\ \A i \in DOMAIN c.outcomes :
                     c.outcomes[i] = "ok" <=> i = Len(c.outcomes))
    /\ [][\A t \in DOMAIN tasks :
            (/\ tasks[t].pc = "running"
             /\ tasks'[t].outcomes = Append(tasks[t].outcomes, "ok"))
            => /\ last_call'.op = "release_true"
               /\ rl'.concurrent_count = rl.concurrent_count - 1
               /\ rl'.total_failures = rl.total_failures]_vars

\* a call has returned the result of its third attempt after two failures
C9_Witness ==
    \E t \in DOMAIN tasks :
        LET c == tasks[t] IN
        /\ c.pc = "returned"
        /\ c.result = MaxRetries
        /\ c.last_exception # NoError
        /\ Len(c.outcomes) = MaxRetries + 1

\* the number of findings of a list that carry severity sev
Count(findings, sev) ==
    Cardinality({i \in DOMAIN findings : findings[i].severity = sev})

\* the severities of a list, in order
SeveritiesOf(findings) == [i \in DOMAIN findings |-> findings[i].severity]

\* the list in the opposite order
Reversed(findings) ==
    [i \in DOMAIN findings |-> findings[Len(findings) + 1 - i]]

\* the same severities under other check_ids
Relabelled(findings) ==
    [i \in DOMAIN findings |-> [findings[i] EXCEPT !.check_id = @ + 100]]

\* C17: fallback_analysis returns risk_score = min(100, sum of the weights
\* CRITICAL=50, HIGH=25, MEDIUM=10, LOW=5, INFO=1 over the findings); the
\* score is fixed by how many findings carry each severity (not by their
\* order or other fields), lies in 0..100, and [CRITICAL, HIGH] gives 75 and
\* [HIGH] gives 25.
C17_FallbackRiskScore ==
    analyzer.result # NoAnalysis =>
        LET f == analyzer.findings
            score == analyzer.result.risk_score
            total == 50 * Count(f, "CRITICAL") + 25 * Count(f, "HIGH")
                       + 10 * Count(f, "MEDIUM") + 5 * Count(f, "LOW")
                       + Count(f, "INFO")
        IN  /\ score = (IF total > 100 THEN 100 ELSE total)
            /\ score \in 0..100
            /\ fallback_analysis(Reversed(f)).risk_score = score
            /\ fallback_analysis(Relabelled(f)).risk_score = score
            /\ SeveritiesOf(f) = <<"CRITICAL", "HIGH">> => score = 75
            /\ SeveritiesOf(f) = <<"HIGH">> => score = 25

\* two CRITICAL findings and a HIGH one: the weights add up to 125 and the
\* score is capped
C17_Witness ==
    /\ analyzer.result # NoAnalysis
    /\ analyzer.result.risk_score = 100
    /\ Count(analyzer.findings, "CRITICAL") = 2
    /\ Count(analyzer.findings, "HIGH") = 1
    /\ Len(analyzer.findings) = 3

\* C18 as stated: the executive summary of fallback_analysis reports the
\* number of findings and the number of findings whose severity is CRITICAL
\* or HIGH, the full count also when more than 10 of them are.
C18_Original ==
    analyzer.result # NoAnalysis =>
        LET f == analyzer.findings IN
        /\ analyzer.result.executive_summary.findings = Len(f)
        /\ analyzer.result.executive_summary.critical
              = Count(f, "CRITICAL") + Count(f, "HIGH")

\* a fallback analysis of more than ten CRITICAL findings
C18_Witness ==
    /\ analyzer.result # NoAnalysis
    /\ Count(analyzer.findings, "CRITICAL") > CriticalIssuesLimit

\* the analyzer has just finished a call of analyze_findings that went to
\* the provider
AnalysisReturned ==
    /\ analyzer.client
    /\ analyzer.pc = "idle"
    /\ analyzer.findings # <<>>

\* the provider's content does not parse or does not pass the schema
BadContent == {"malformed", "invalid", "not_text", "no_text"}

\* C14: analyze_findings never raises to its caller: when the provider call
\* raises, times out, exhausts its retries, is refused by the limiter or
\* the breaker on every attempt, or returns content that fails JSON parsing
\* or schema validation, the call returns exactly
\* fallback_analysis(findings).
C14_AnalyzeDegrades ==
    /\ ~analyzer.raised
    /\ AnalysisReturned =>
          /\ analyzer.result # NoAnalysis
          /\ (tasks[1].pc = "raised" \/ analyzer.content \in BadContent)
                => analyzer.result = fallback_analysis(analyzer.findings)

\* an analysis whose provider call was refused on each of its four attempts
\* and ended with the generic error: the fallback analysis came back
C14_Witness ==
    /\ AnalysisReturned
    /\ tasks[1].pc = "raised"
    /\ tasks[1].raised = GenericError
    /\ tasks[1].acquires = DefaultMaxRetries + 1
    /\ tasks[1].admitted = 0
    /\ analyzer.result = fallback_analysis(analyzer.findings)

\* C15 as stated: every provider failure, a response that is malformed or
\* fails validation included, is recorded as a failure against the circuit
\* breaker.
C15_Original ==
    [][(/\ analyzer.pc = "analyze"
        /\ analyzer'.pc = "idle"
        /\ analyzer'.content \in {"malformed", "invalid"})
       => /\ last_call'.op = "release_false"
          /\ rl'.total_failures = rl.total_failures + 1]_vars

\* a malformed response has been answered with the fallback analysis while
\* the limiter has no failure on record
C15_Witness ==
    /\ AnalysisReturned
    /\ analyzer.content = "malformed"
    /\ analyzer.total_api_errors = 1
    /\ rl.total_failures = 0
    /\ last_call.op = "release_true"

\* C16: an analyzer constructed without an API key, or with a provider
\* other than anthropic/openai, never calls acquire or the provider in any
\* sequence of analyze_findings and generate_remediation_script calls:
\* total_requests, total_api_calls and total_api_errors stay 0.
C16_FallbackModeForever ==
    (~analyzer.api_key \/ analyzer.provider \notin {"anthropic", "openai"})
    => /\ last_call.op = "init"
       /\ tasks[1] = IdleTask
       /\ rl.total_requests = 0
       /\ analyzer.total_api_calls = 0
       /\ analyzer.total_api_errors = 0

\* an analyzer with a key but the provider "none" has served a remediation
\* call with the template script
C16_Witness ==
    /\ analyzer.api_key /\ analyzer.provider = "none"
    /\ analyzer.pc = "idle"
    /\ analyzer.finding # NoFinding
    /\ analyzer.script
          = fallback_remediation_script(analyzer.finding, analyzer.platform)

\* a run has stored and aggregated its collectors' results
Aggregated == audit.pc \in {"analysis", "remediation", "done"}

\* C19: an audit run whose collectors produce zero findings never calls
\* analyze_findings, generate_remediation_script, RateLimiter.acquire or the
\* provider (no step of the orchestrator that leaves all_findings empty
\* touches the analyzer, the limiter or the provider call), and the run ends
\* with ai_analysis = risk_score 0, no critical issues and the canned
\* healthy-system summary.
C19_EmptyFindingsShortcut ==
    /\ [](Aggregated /\ audit.audit_results.all_findings = <<>>
            => /\ audit.pc = "done"
               /\ audit.analyze_calls = 0
               /\ audit.script_calls = 0
               /\ audit.audit_results.ai_analysis.risk_score = 0
               /\ audit.audit_results.ai_analysis.critical_issues = <<>>
               /\ audit.audit_results.ai_analysis.executive_summary
                     = [text |->
                          "No security or configuration issues detected."]
               /\ audit.audit_results.remediation_scripts = <<>>)
    /\ [][audit' # audit /\ audit'.audit_results.all_findings = <<>>
            => UNCHANGED <<rl, granted, last_call, fail_streak, succ_streak,
                           tasks, analyzer>>]_vars

\* a run of two collectors, with a live client and remediation asked for,
\* has ended without a finding
C19_Witness ==
    /\ audit.pc = "done"
    /\ Len(audit.collectors) = 2
    /\ audit.audit_results.collector_results # <<>>
    /\ audit.audit_results.all_findings = <<>>
    /\ audit.generate_remediation
    /\ analyzer.client

\* claim-side rank of a severity: CRITICAL < HIGH < MEDIUM < LOW < INFO <
\* anything else
Rank(sev) ==
    IF sev = "CRITICAL" THEN 1
    ELSE IF sev = "HIGH" THEN 2
    ELSE IF sev = "MEDIUM" THEN 3
    ELSE IF sev = "LOW" THEN 4
    ELSE IF sev = "INFO" THEN 5
    ELSE 6

\* the places <<i, j>> of the findings held by the stored collector results
\* and the finding of a place as aggregation is to hand it on
StoredPlaces(ar) ==
    {<<i, j>> \in (DOMAIN ar.collector_results) \X (1..MaxLong) :
        j \in DOMAIN ar.collector_results[i].value.findings}
StoredFinding(ar, p) ==
    [check_id |-> ar.collector_results[p[1]].value.findings[p[2]].check_id,
     severity |-> ar.collector_results[p[1]].value.findings[p[2]].severity,
     collector_name |-> ar.collector_results[p[1]].key]

\* C20: after aggregation all_findings holds every finding of every stored
\* collector result exactly once, stamped with its collector's name, and no
\* finding precedes one of strictly higher severity under CRITICAL < HIGH <
\* MEDIUM < LOW < INFO < unknown; unknown severities are kept, last.
C20_SeverityOrdering ==
    Aggregated
    => LET ar == audit.audit_results
           all == ar.all_findings
           stored == {StoredFinding(ar, p) : p \in StoredPlaces(ar)}
       IN  /\ Len(all) = Cardinality(StoredPlaces(ar))
           /\ \A x \in stored \cup {all[k] : k \in DOMAIN all} :
                 Cardinality({k \in DOMAIN all : all[k] = x})
                    = Cardinality({p \in StoredPlaces(ar) :
                                      StoredFinding(ar, p) = x})
           /\ \A i, j \in DOMAIN all :
                 i < j => Rank(all[i].severity) <= Rank(all[j].severity)

\* two collectors: the first found a MEDIUM, the second an unknown severity
\* and a CRITICAL; the CRITICAL leads and the unknown one is last
C20_Witness ==
    /\ Aggregated
    /\ Len(audit.audit_results.collector_results) = 2
    /\ Len(audit.audit_results.all_findings) = 3
    /\ audit.audit_results.all_findings[1].severity = "CRITICAL"
    /\ audit.audit_results.all_findings[1].collector_name
          = audit.audit_results.collector_results[2].key
    /\ audit.audit_results.all_findings[2].severity = "MEDIUM"
    /\ audit.audit_results.all_findings[2].collector_name
          = audit.audit_results.collector_results[1].key
    /\ audit.audit_results.all_findings[3].severity = "BOGUS"

\* the collectors of the run that raised out of safe_collect
RaisedCollectors == {i \in DOMAIN audit.results : audit.results[i] = Raised}

\* the last collector registered under the name of collector i that handed
\* back a result
LastUnderName(i) ==
    CHOOSE j \in DOMAIN audit.collectors :
        /\ audit.collectors[j] = audit.collectors[i]
        /\ audit.results[j] # Raised
        /\ \A k \in DOMAIN audit.collectors :
              (audit.collectors[k] = audit.collectors[i]
                 /\ audit.results[k] # Raised) => k <= j

\* C21: in parallel collection a collector that raises an unhandled
\* exception stops no other collector: every collector finishes, the result
\* of every collector that did not raise is in collector_results under its
\* name (the last one registered under a name, where a name is shared), and
\* the run is not ended by the exception.
C21_CollectorIsolation ==
    (audit.parallel_execution /\ RaisedCollectors # {})
    => /\ audit.pc = "raised" => audit.recorded = "failed"
       /\ audit.pc # "collecting"
            => /\ Aggregated \/ audit.pc = "raised"
               /\ \A i \in DOMAIN audit.collectors :
                     /\ audit.results[i] # Pending
                     /\ i \notin RaisedCollectors
                         => \E e \in DOMAIN audit.audit_results.collector_results :
                              /\ audit.audit_results.collector_results[e].key
                                    = audit.collectors[i]
                              /\ audit.audit_results.collector_results[e].value
                                    = audit.results[LastUnderName(i)]

\* a parallel run of two collectors under two names has returned: the first
\* collector raised, the second one's findings are in the result
C21_Witness ==
    /\ audit.parallel_execution
    /\ audit.pc = "done"
    /\ Len(audit.collectors) = 2
    /\ audit.collectors[1] # audit.collectors[2]
    /\ audit.results[1] = Raised
    /\ audit.results[2].status = "success"
    /\ audit.results[2].findings # <<>>
    /\ Len(audit.audit_results.collector_results) = 1
    /\ audit.audit_results.collector_results[1].key = audit.collectors[2]
    /\ Len(audit.audit_results.all_findings) = Len(audit.results[2].findings)

\* the collectors are registered under pairwise different names
DistinctNames ==
    \A i, j \in DOMAIN audit.collectors :
        audit.collectors[i] = audit.collectors[j] => i = j

\* C22 as stated: in both modes a collector that raises is stored in
\* collector_results under its name with status FAILED, the other
\* collectors of the batch still run, and after the collection phase
\* collector_results has one entry per registered collector.
C22_Original ==
    (audit.pc \notin {"idle", "collecting"} /\ DistinctNames)
    => /\ \A i \in DOMAIN audit.collectors : audit.results[i] # Pending
       /\ Len(audit.audit_results.collector_results) = Len(audit.collectors)
       /\ \A i \in DOMAIN audit.collectors :
             \E e \in DOMAIN audit.audit_results.collector_results :
                /\ audit.audit_results.collector_results[e].key
                      = audit.collectors[i]
                /\ i \in RaisedCollectors
                   => audit.audit_results.collector_results[e].value.status
                        = "failed"

\* a sequential run of two collectors has ended with the exception of the
\* first one: the second never ran and nothing is stored
C22_Witness ==
    /\ ~audit.parallel_execution
    /\ audit.pc = "raised"
    /\ Len(audit.collectors) = 2
    /\ audit.results[1] = Raised
    /\ audit.results[2] = Pending
    /\ audit.audit_results.collector_results = <<>>

\* the CRITICAL and HIGH findings of the run in their sorted order, by
\* position in all_findings
PriorityPlaces(o) ==
    {i \in DOMAIN o.audit_results.all_findings :
        o.audit_results.all_findings[i].severity \in {"CRITICAL", "HIGH"}}
NthPriority(o, k) ==
    o.audit_results.all_findings[
        CHOOSE i \in PriorityPlaces(o) :
            Cardinality({j \in PriorityPlaces(o) : j <= i}) = k]

\* C23: in one run generate_remediation_script is called only for CRITICAL
\* and HIGH findings, for the first 10 of them in sorted order, the k-th
\* call being for the k-th of them and starting only when no call of the
\* analyzer is in flight; so at most 10 calls are made and
\* remediation_scripts has at most 10 entries, each under the check_id of
\* one of those findings.
C23_RemediationSelection ==
    /\ [](audit.pc \in {"remediation", "done", "raised"}
            => /\ audit.script_calls <= 10
               /\ audit.script_calls <= Cardinality(PriorityPlaces(audit))
               /\ Len(audit.audit_results.remediation_scripts) <= 10
               /\ Len(audit.audit_results.remediation_scripts)
                     <= audit.script_calls
               /\ \A e \in DOMAIN audit.audit_results.remediation_scripts :
                     \E k \in 1..audit.script_calls :
                        /\ k <= 10
                        /\ audit.audit_results.remediation_scripts[e].key
                              = NthPriority(audit, k).check_id
                        /\ audit.audit_results.remediation_scripts[e]
                              .value.finding = NthPriority(audit, k))
    /\ [][audit'.script_calls # audit.script_calls
            => \/ audit'.pc = "collecting" /\ audit'.script_calls = 0
               \/ /\ audit'.script_calls = audit.script_calls + 1
                  /\ analyzer.pc = "idle"
                  /\ tasks[1].pc \notin {"sleeping", "running"}
                  /\ audit'.script_calls <= 10
                  /\ audit'.script_calls
                        <= Cardinality(PriorityPlaces(audit'))
                  /\ analyzer'.finding
                        = NthPriority(audit', audit'.script_calls)
                  /\ analyzer'.finding.severity \in {"CRITICAL", "HIGH"}]_vars

\* a run whose only collector found eleven or more CRITICAL and HIGH
\* findings and a LOW one has returned with ten scripts after ten calls
C23_Witness ==
    /\ audit.pc = "done"
    /\ audit.generate_remediation
    /\ Cardinality(PriorityPlaces(audit)) > 10
    /\ Len(audit.audit_results.all_findings)
          > Cardinality(PriorityPlaces(audit))
    /\ audit.script_calls = 10
    /\ Len(audit.audit_results.remediation_scripts) = 10

\* where a shell stands after reading piece tok in place mode of a script:
\* at the start of a line, in a comment, behind echo, in the echo's string,
\* behind the string; "live" once something other than a comment or an
\* echo of fixed text is run
read_piece(mode, tok) ==
    CASE mode = "start" ->
            (CASE tok = "hash" -> "comment"
               [] tok = "newline" -> "start"
               [] tok = "echo" -> "echo"
               [] OTHER -> "live")
      [] mode = "comment" -> IF tok = "newline" THEN "start" ELSE "comment"
      [] mode = "echo" -> IF tok = "quote" THEN "string" ELSE "live"
      [] mode = "string" ->
            (CASE tok = "quote" -> "behind"
               [] tok \in {"word", "newline"} -> "string"
               [] OTHER -> "live")
      [] mode = "behind" -> IF tok = "newline" THEN "start" ELSE "live"
      [] OTHER -> "live"

RECURSIVE read_script(_, _)
read_script(mode, text) ==
    IF text = <<>> THEN mode
    ELSE read_script(read_piece(mode, Head(text)), Tail(text))

\* a script of comments and echo statements of fixed text only
Inert(text) == read_script("start", text) = "start"

\* a call of generate_remediation_script has returned or raised
RemediationReturned ==
    /\ analyzer.pc = "idle"
    /\ analyzer.finding # NoFinding

\* the provider call of the last remediation call succeeded, with a text
ProviderSucceeded ==
    /\ analyzer.client
    /\ tasks[1].pc = "returned"
    /\ analyzer.content \notin {"none", "no_text", "not_text"}

\* the choice between the provider's script and the template, the text of
\* the template left aside (this much holds in every reachable state)
FailSafeChoice ==
    RemediationReturned
    => /\ ~analyzer.raised
       /\ analyzer.script
             = IF ProviderSucceeded THEN ProviderScript
               ELSE fallback_remediation_script(analyzer.finding,
                                                analyzer.platform)

\* C24 as stated: generate_remediation_script never raises, returns the
\* provider's script only when the provider call succeeded, and in every
\* other case (no live client; the call raised, timed out, used up its
\* retries or was refused by the limiter) returns the fallback template,
\* which is inert: comments and echo statements only.
C24_Original ==
    RemediationReturned
    => /\ ~analyzer.raised
       /\ analyzer.script = ProviderScript => ProviderSucceeded
       /\ ~ProviderSucceeded
          => /\ analyzer.script
                  = fallback_remediation_script(analyzer.finding,
                                                analyzer.platform)
             /\ Inert(analyzer.script.text)

\* the provider call of a live analyzer raised and the template returned
\* runs the command substitution of the finding's description
C24_Witness ==
    /\ RemediationReturned
    /\ analyzer.client
    /\ tasks[1].pc = "raised"
    /\ analyzer.finding.description = SubstText
    /\ analyzer.script
          = fallback_remediation_script(analyzer.finding, analyzer.platform)
    /\ ~Inert(analyzer.script.text)

\* C25 as stated: a database write that raises or a metrics recording that
\* raises does not fail the run: run_audit_async returns the complete
\* audit_results and raises nothing.
C25_Original ==
    (audit.saved = "failed" \/ audit.recorded = "failed")
    => /\ audit.pc = "done"
       /\ audit.audit_results.ai_analysis # NoAnalysis

\* a run with findings was analysed and saved, and ended raising what the
\* metrics recording raised
C25_Witness ==
    /\ audit.pc = "raised"
    /\ audit.recorded = "failed"
    /\ audit.saved = "yes"
    /\ audit.audit_results.all_findings # <<>>
    /\ audit.audit_results.ai_analysis # NoAnalysis

\* the place of a phase in the order of the pipeline
PhaseOrder ==
    <<"collection", "aggregation", "analysis", "remediation",
      "finalize_metrics", "persistence", "record_metrics">>
PhaseIndex(phase) == CHOOSE k \in DOMAIN PhaseOrder : PhaseOrder[k] = phase
Began(phase) == \E k \in DOMAIN audit.phases : audit.phases[k] = phase

\* some call of the analyzer or of the provider is under way
AnalyzerBusy ==
    \/ analyzer.pc # "idle"
    \/ tasks[1].pc \in {"running", "sleeping"}

\* C26: the phases of a run begin in one fixed order, each at most once and
\* none before the one before it has ended: aggregation only when every
\* collector has finished (in parallel mode too), the analysis only after
\* aggregation, remediation only after the analysis has returned, the
\* finalization of the metrics only after remediation, persistence only
\* after the finalization of the metrics.
C26_PhaseOrder ==
    audit.pc \notin {"none", "idle"}
    => /\ \A k \in DOMAIN audit.phases :
             /\ audit.phases[k] \in {PhaseOrder[n] : n \in DOMAIN PhaseOrder}
             /\ \A m \in DOMAIN audit.phases :
                   k < m => PhaseIndex(audit.phases[k])
                              < PhaseIndex(audit.phases[m])
       /\ Began("collection")
       /\ Began("aggregation")
            => /\ \A i \in DOMAIN audit.results : audit.results[i] # Pending
               /\ Len(audit.completed) = Len(audit.collectors)
       /\ Began("analysis") => Began("aggregation")
       /\ audit.pc = "analysis"
            => audit.phases = <<"collection", "aggregation", "analysis">>
       /\ Began("remediation")
            => /\ Began("analysis")
               /\ audit.audit_results.ai_analysis # NoAnalysis
               /\ analyzer.pc # "analyze"
       /\ audit.pc = "remediation"
            => audit.phases = <<"collection", "aggregation", "analysis",
                                "remediation">>
       /\ (Began("finalize_metrics") \/ Began("persistence"))
            => /\ Began("analysis")
               /\ audit.audit_results.ai_analysis # NoAnalysis
               /\ audit.priority_findings = <<>>
               /\ ~AnalyzerBusy
               /\ audit.script_calls
                     = IF Began("remediation")
                       THEN Len(priority_findings(audit.audit_results))
                       ELSE 0
       /\ (Began("persistence") /\ audit.metrics_enabled)
            => Began("finalize_metrics")

\* a parallel run with a live client went through all seven phases; its
\* second collector finished before the first, and the provider was asked
C26_Witness ==
    /\ audit.pc = "done"
    /\ audit.phases = PhaseOrder
    /\ audit.parallel_execution
    /\ audit.completed = <<2, 1>>
    /\ analyzer.client
    /\ analyzer.total_api_calls + analyzer.total_api_errors > 0

\* the collectors that handed back a result, and among them the first one
\* registered under each name
StoredCollectors == (DOMAIN audit.collectors) \ RaisedCollectors
FirstUnderName ==
    {i \in StoredCollectors :
        \A j \in StoredCollectors :
            audit.collectors[j] = audit.collectors[i] => i <= j}

\* the place of a name among the entries of collector_results
EntryOf(name) ==
    CHOOSE e \in DOMAIN audit.audit_results.collector_results :
        audit.audit_results.collector_results[e].key = name

\* <<a1, a2, a3>> before <<b1, b2, b3>> in lexicographic order
LexLess(a, b) ==
    \/ a[1] < b[1]
    \/ a[1] = b[1] /\ a[2] < b[2]
    \/ a[1] = b[1] /\ a[2] = b[2] /\ a[3] < b[3]

\* where a finding of all_findings belongs: by severity, then by its
\* collector's entry, then by its place in that collector's findings (the
\* check_id of a finding is its place in its collector's list)
SortKey(x) == <<Rank(x.severity), EntryOf(x.collector_name), x.check_id>>

\* C28: in parallel collection the final structure is a function of the
\* registered collectors and of their results alone, whatever the order in
\* which they finished: collector_results has the names in registration
\* order, each with the result of its collector, and all_findings lists the
\* stored findings by severity, same-severity findings by registration
\* order of their collectors and then in their collector's own order.
C28_CompletionOrderImmaterial ==
    (Aggregated /\ audit.parallel_execution)
    => LET ar == audit.audit_results
           cr == ar.collector_results
           all == ar.all_findings
       IN  /\ Len(cr) = Cardinality(FirstUnderName)
           /\ \A i \in FirstUnderName :
                 LET e == Cardinality({j \in FirstUnderName : j <= i})
                 IN  /\ cr[e].key = audit.collectors[i]
                     /\ cr[e].value = audit.results[LastUnderName(i)]
           /\ Len(all) = Cardinality(StoredPlaces(ar))
           /\ \A p \in DOMAIN all :
                 \E place \in StoredPlaces(ar) :
                    all[p] = StoredFinding(ar, place)
           /\ \A p, q \in DOMAIN all :
                 p < q => LexLess(SortKey(all[p]), SortKey(all[q]))

\* two collectors under two names both found a CRITICAL finding and the
\* second finished first: the first one's finding leads all_findings
C28_Witness ==
    /\ Aggregated
    /\ audit.parallel_execution
    /\ audit.completed = <<2, 1>>
    /\ audit.collectors[1] # audit.collectors[2]
    /\ audit.results[1] # Raised
    /\ audit.results[2] # Raised
    /\ audit.results[1] # audit.results[2]
    /\ \E j \in DOMAIN audit.results[1].findings :
          audit.results[1].findings[j].severity = "CRITICAL"
    /\ \E j \in DOMAIN audit.results[2].findings :
          audit.results[2].findings[j].severity = "CRITICAL"
    /\ audit.audit_results.all_findings[1].collector_name
          = audit.collectors[1]
    /\ audit.audit_results.collector_results[1].key = audit.collectors[1]

\* the tasks that hold a slot: acquire returned True, release not yet called
Holders == {w \in DOMAIN tasks : tasks[w].pc = "working"}

\* no task has called release yet
NoneReleased ==
    \A w \in DOMAIN tasks : tasks[w].pc \notin {"recording", "released"}

\* C27: with several tasks on one limiter each acquire and each release
\* takes effect as one atomic step: no two tasks are inside acquire or
\* release at once, and a call leaves the limiter as the whole call, run
\* alone on the limiter it found, would have.  In every interleaving the
\* tasks holding a slot are as many as concurrent_count and never more than
\* max_concurrent_requests, and of more tasks than max_concurrent_requests
\* that all acquire before any releases, some are admitted and the others
\* refused.
C27_AtomicAcquireRelease ==
    /\ [](/\ Cardinality({w \in DOMAIN tasks :
                  tasks[w].pc \in {"admitting", "recording"}}) <= 1
          /\ Cardinality(Holders) <= config.max_concurrent_requests
          /\ lock_free(tasks) => rl.concurrent_count = Cardinality(Holders)
          /\ (/\ NoneReleased
              /\ \A w \in DOMAIN tasks :
                    tasks[w].pc \in {"working", "blocked"}
              /\ Cardinality(DOMAIN tasks) > config.max_concurrent_requests)
             => /\ Holders # {}
                /\ \E w \in DOMAIN tasks : tasks[w].pc = "blocked")
    /\ [][\A w \in DOMAIN tasks :
            /\ (tasks[w].pc = "admitting" /\ tasks'[w].pc # "admitting")
               => LET a == acquire(tasks[w].entry, config, tasks[w].now)
                  IN  /\ rl' = a.rl
                      /\ a.ret <=> tasks'[w].pc = "working"
            /\ (tasks[w].pc = "idle" /\ tasks'[w].pc = "blocked")
               => LET a == acquire(rl, config, clock)
                  IN  rl' = a.rl /\ ~a.ret
            /\ (tasks[w].pc = "recording" /\ tasks'[w].pc = "released")
               => rl' = release(tasks[w].entry, config, tasks[w].success,
                                clock)]_vars

\* three tasks on a limiter of two slots and room in its windows: all have
\* acquired, none has released, two hold a slot and one was refused
C27_Witness ==
    /\ Cardinality(DOMAIN tasks) = 3
    /\ config.max_concurrent_requests = 2
    /\ Cardinality(Holders) = 2
    /\ \E w \in DOMAIN tasks : tasks[w].pc = "blocked"
    /\ rl.total_rate_limited = 1
    /\ NoneReleased

\* the operation invocations of the call task t is in or was last in: the
\* finished ones and the one under way
Invocations(t) ==
    Len(tasks[t].outcomes) + (IF tasks[t].pc = "running" THEN 1 ELSE 0)

\* a step in which the acquire of task t's call returned False
Refused(t) ==
    /\ \/ /\ tasks[t].pc = "sleeping"
          /\ tasks'[t].acquires = tasks[t].acquires + 1
       \/ /\ tasks[t].pc \in {"idle", "returned", "raised"}
          /\ tasks'[t].pc \in {"sleeping", "running"}
    /\ last_call'.op = "acquire" /\ ~last_call'.ret

\* C29: in execute_with_retry an attempt whose acquire() returns False uses
\* up one loop iteration: the operation is not invoked and release is not
\* called (the limiter is left as acquire left it), the call sleeps
\* wait_time, and when the sleep ends wait_time is multiplied by
\* backoff_factor and the next attempt begins.  So the invocations of one
\* call are as many as its acquires that returned True, and at most
\* max_retries + 1.
C29_RefusedAttempt ==
    /\ [](\A t \in DOMAIN tasks :
            /\ Invocations(t) = tasks[t].admitted
            /\ tasks[t].admitted <= tasks[t].acquires
            /\ tasks[t].acquires <= tasks[t].max_retries + 1
            /\ tasks[t].pc \in {"sleeping", "running"}
                  => tasks[t].acquires = tasks[t].attempt + 1)
    /\ [][\A t \in DOMAIN tasks :
            /\ Refused(t)
               => /\ tasks'[t].pc = "sleeping"
                  /\ tasks'[t].since = clock
                  /\ Invocations(t)' = tasks'[t].admitted
                  /\ tasks'[t].outcomes =
                        IF tasks[t].pc = "sleeping" THEN tasks[t].outcomes
                        ELSE <<>>
                  /\ rl' = acquire(rl, config, clock).rl
                  /\ rl'.concurrent_count = rl.concurrent_count
                  /\ rl'.total_failures = rl.total_failures
            /\ (tasks[t].pc = "sleeping" /\ tasks'[t] # tasks[t])
               => /\ (clock - tasks[t].since) * tasks[t].wait_time.den
                        >= tasks[t].wait_time.num
                  /\ tasks'[t].wait_time =
                        times(tasks[t].wait_time, tasks[t].backoff_factor)
                  /\ tasks'[t].attempt = tasks[t].attempt + 1]_vars

\* a call whose first acquire was refused and whose second was admitted:
\* two iterations used, one invocation
C29_Witness ==
    \E t \in DOMAIN tasks :
        /\ tasks[t].pc = "returned"
        /\ tasks[t].acquires = 2
        /\ tasks[t].admitted = 1
        /\ tasks[t].sleeps = 1
        /\ tasks[t].outcomes = <<"ok">>

\* f to the n-th, as a fraction
RECURSIVE power(_, _)
power(f, n) ==
    IF n = 0 THEN [num |-> 1, den |-> 1] ELSE times(power(f, n - 1), f)

\* fractions of positive denominators: the same number, and a smaller one
same(v, w) == v.num * w.den = w.num * v.den
less(v, w) == v.num * w.den < w.num * v.den

\* C30: within one execute_with_retry call the k-th sleep lasts
\* 1.0 * backoff_factor^(k-1) seconds, so with backoff_factor > 1 each sleep
\* is strictly longer than the one before; after an attempt whose operation
\* raised or timed out the call sleeps exactly when attempts remain; and
\* wait_time is local to the call: every new call starts again at 1.0
\* whatever earlier calls left.
C30_BackoffSchedule ==
    /\ [](\A t \in DOMAIN tasks :
            tasks[t].pc = "sleeping"
               => /\ tasks[t].sleeps >= 1
                  /\ same(tasks[t].wait_time,
                          power(tasks[t].backoff_factor,
                                tasks[t].sleeps - 1)))
    /\ [][\A t \in DOMAIN tasks :
            /\ (/\ tasks[t].pc = "sleeping"
                /\ tasks'[t].pc = "sleeping"
                /\ tasks'[t].sleeps = tasks[t].sleeps + 1
                /\ less([num |-> 1, den |-> 1], tasks[t].backoff_factor))
               => less(tasks[t].wait_time, tasks'[t].wait_time)
            /\ (tasks[t].pc = "running" /\ tasks'[t].pc = "sleeping")
               => /\ tasks'[t].wait_time = tasks[t].wait_time
                  /\ tasks'[t].sleeps = tasks[t].sleeps + 1
            /\ (/\ tasks[t].pc = "running"
                /\ tasks'[t].pc # "running"
                /\ tasks'[t].outcomes # Append(tasks[t].outcomes, "ok"))
               => /\ tasks'[t].pc = "sleeping"
                        <=> tasks[t].attempt < tasks[t].max_retries
                  /\ tasks'[t].pc = "raised"
                        <=> tasks[t].attempt >= tasks[t].max_retries
            /\ (/\ tasks[t].pc \in {"idle", "returned", "raised"}
                /\ tasks'[t] # tasks[t])
               => /\ tasks'[t].wait_time = [num |-> 1, den |-> 1]
                  /\ tasks'[t].attempt = 0
                  /\ tasks'[t].sleeps =
                        IF tasks'[t].pc = "sleeping" THEN 1 ELSE 0]_vars

\* the third sleep of a call, 2.25 seconds long, on a limiter that has
\* admitted more requests than this call made: an earlier call came before
C30_Witness ==
    \E t \in DOMAIN tasks :
        /\ tasks[t].pc = "sleeping"
        /\ tasks[t].sleeps = 3
        /\ tasks[t].wait_time = [num |-> 9, den |-> 4]
        /\ rl.total_requests > tasks[t].admitted

\* a step in which the operation of task t raised or was cut off
Failed(t) ==
    /\ tasks[t].pc = "running"
    /\ tasks'[t].pc # "running"
    /\ tasks'[t].outcomes # Append(tasks[t].outcomes, "ok")

\* C31: a call that has used all its max_retries + 1 attempts without a
\* success raises the error of the most recent attempt that ran the
\* operation, or the generic "Request failed after all retries" error when
\* every acquire was refused; it returns no value.  The error a call holds
\* is replaced by each attempt whose operation fails and left alone by a
\* refused acquire.
C31_ExhaustionError ==
    /\ [](\A t \in DOMAIN tasks :
            LET c == tasks[t] IN
            c.pc = "raised"
            => /\ c.result = -1
               /\ c.acquires = c.max_retries + 1
               /\ \A i \in DOMAIN c.outcomes : c.outcomes[i] # "ok"
               /\ c.outcomes = <<>> <=> c.admitted = 0
               /\ c.raised =
                     IF c.outcomes = <<>> THEN GenericError
                     ELSE c.last_exception
               /\ c.outcomes # <<>>
                     => /\ c.raised.type = c.outcomes[Len(c.outcomes)]
                        /\ c.raised.attempt \in 0..c.max_retries)
    /\ [][\A t \in DOMAIN tasks :
            /\ Failed(t)
               => tasks'[t].last_exception =
                     ErrorOf(tasks'[t].outcomes[Len(tasks'[t].outcomes)],
                             tasks[t].attempt)
            /\ (tasks[t].pc = "sleeping" /\ tasks'[t] # tasks[t])
               => tasks'[t].last_exception = tasks[t].last_exception]_vars

\* a call with max_retries = 2 whose first two attempts failed in different
\* ways and whose third acquire was refused has raised the error of the
\* second attempt
C31_Witness ==
    \E t \in DOMAIN tasks :
        LET c == tasks[t] IN
        /\ c.pc = "raised"
        /\ c.max_retries = 2
        /\ c.acquires = 3 /\ c.admitted = 2
        /\ Len(c.outcomes) = 2
        /\ c.raised.attempt = 1
        /\ c.raised.type # c.outcomes[1]

\* a step in which the operation of task t failed in the way kind
FailedAs(t, kind) ==
    /\ tasks[t].pc = "running"
    /\ tasks'[t].pc # "running"
    /\ tasks'[t].outcomes = Append(tasks[t].outcomes, kind)

\* what a failure step does to the call but for the kind of the error
SameButKind(c, d) ==
    /\ c.pc = d.pc
    /\ c.attempt = d.attempt
    /\ c.wait_time = d.wait_time
    /\ c.sleeps = d.sleeps
    /\ c.since = d.since
    /\ c.result = d.result
    /\ c.acquires = d.acquires /\ c.admitted = d.admitted
    /\ Len(c.outcomes) = Len(d.outcomes)
    /\ c.last_exception.attempt = d.last_exception.attempt
    /\ c.raised.attempt = d.raised.attempt
    /\ (c.raised = NoError) <=> (d.raised = NoError)

\* C32: an operation that is not done within request_timeout_seconds is
\* treated like one that raised: the slot is released with success = false,
\* which counts one failure for the breaker and in total_failures, the
\* timeout becomes the last error, and the call goes to sleep if attempts
\* remain and raises the timeout if not.
C32_TimeoutIsFailure ==
    [][\A t \in DOMAIN tasks :
         FailedAs(t, "TimeoutError")
         => /\ clock - tasks[t].since >= config.request_timeout_seconds
            /\ last_call'.op = "release_false" /\ last_call'.held
            /\ rl' = release(rl, config, FALSE, clock)
            /\ rl'.concurrent_count = rl.concurrent_count - 1
            /\ rl'.total_failures = rl.total_failures + 1
            /\ rl.circuit_state = CLOSED
                  => rl'.failure_count = rl.failure_count + 1
            /\ rl'.circuit_state = OPEN
                  <=> \/ rl.circuit_state \in {OPEN, HALF_OPEN}
                      \/ rl.failure_count + 1 >= config.failure_threshold
            /\ tasks'[t].last_exception =
                  ErrorOf("TimeoutError", tasks[t].attempt)
            /\ IF tasks[t].attempt < tasks[t].max_retries
               THEN /\ tasks'[t].pc = "sleeping"
                    /\ tasks'[t].since = clock
                    /\ tasks'[t].wait_time = tasks[t].wait_time
               ELSE /\ tasks'[t].pc = "raised"
                    /\ tasks'[t].raised =
                          ErrorOf("TimeoutError", tasks[t].attempt)
            /\ SameButKind(tasks'[t],
                           after_failure(tasks[t], "Exception", clock))]_vars

\* a call whose last attempt was cut off has raised the timeout, and that
\* failure opened the circuit
C32_Witness ==
    \E t \in DOMAIN tasks :
        /\ tasks[t].pc = "raised"
        /\ tasks[t].raised = ErrorOf("TimeoutError", tasks[t].max_retries)
        /\ tasks[t].max_retries >= 1
        /\ last_call.op = "release_false" /\ last_call.pre = CLOSED
        /\ rl.circuit_state = OPEN
        /\ rl.circuit_opened_at = clock

\* task t is inside execute_with_retry, and the call of task t has ended
InCall(t) == tasks[t].pc \in {"loop", "sleeping", "running"}
Ended(t) == tasks[t].pc \in {"returned", "raised"}

\* C33: every call of execute_with_retry ends: when every sleep ends and
\* every attempt of the operation completes or is cut off at
\* request_timeout_seconds, the call returns or raises, after no more than
\* max_retries + 1 acquires, whatever the state of the limiter: also with a
\* circuit that stays OPEN and with ceilings that stay full.
C33_Termination ==
    /\ [](\A t \in Tasks : tasks[t].acquires <= tasks[t].max_retries + 1)
    /\ \A t \in Tasks : InCall(t) ~> Ended(t)

\* a call that met an OPEN circuit and a full per-minute window at each of
\* its three acquires has ended, and the circuit is still OPEN
C33_Witness ==
    \E t \in Tasks :
        /\ Ended(t)
        /\ tasks[t].acquires = 3 /\ tasks[t].admitted = 0
        /\ rl.circuit_state = OPEN
        /\ Len(rl.minute_requests) >= config.max_requests_per_minute

\* C34: in CLOSED a release(true) of a held slot sets the failure counter to
\* 0 and leaves the state CLOSED, so the circuit opens only at the
\* failure_threshold-th recorded failure in a row with no success between:
\* while fewer than failure_threshold failures have been recorded since the
\* last success the state stays CLOSED, however many failures there were in
\* total.  fail_streak counts the failures recorded since the last success.
C34_SuccessResetsStreak ==
    /\ [](rl.circuit_state = CLOSED
            => /\ fail_streak >= 0
               /\ fail_streak < config.failure_threshold
               /\ rl.failure_count = fail_streak)
    /\ [][/\ (/\ rl.circuit_state = CLOSED
              /\ last_call'.op = "release_true" /\ last_call'.held
              /\ last_call' # last_call \/ rl' # rl)
             => /\ rl'.circuit_state = CLOSED
                /\ rl'.failure_count = 0
                /\ fail_streak' = 0
          /\ (rl.circuit_state = CLOSED /\ rl'.circuit_state # CLOSED)
             => /\ last_call'.op = "release_false" /\ last_call'.held
                /\ rl'.circuit_state = OPEN
                /\ fail_streak' = fail_streak + 1
                /\ fail_streak' = config.failure_threshold]_vars

\* with failure_threshold = 2 two failures were recorded, a success between
\* them, and the circuit has never opened
C34_Witness ==
    /\ config.failure_threshold = 2
    /\ rl.total_failures = 2
    /\ rl.total_circuit_opens = 0
    /\ rl.circuit_state = CLOSED
    /\ rl.failure_count = 1
    /\ last_call.op = "release_false" /\ last_call.held

\* C35: after any sequence of acquire and release calls total_requests is
\* the number of acquires that returned true and total_failures the number
\* of release(false) calls made while a slot was held: each such call adds
\* one and no other call changes them.  Hence total_failures <=
\* total_requests, and the failure_rate of get_stats is total_failures /
\* total_requests, at most 1, and 0 when there were no requests.
C35_CounterConsistency ==
    /\ [](/\ get_stats(rl).total_requests = Len(granted)
          /\ get_stats(rl).total_failures + rl.concurrent_count
                <= get_stats(rl).total_requests
          /\ get_stats(rl).total_failures <= get_stats(rl).total_requests
          /\ LET rate == get_stats(rl).failure_rate IN
                /\ rate.den > 0
                /\ rate.num * Len(granted) = rl.total_failures * rate.den
                /\ rate.num <= rate.den
                /\ Len(granted) = 0 => rate.num = 0)
    /\ [][/\ Acquire
             => /\ rl'.total_requests =
                      rl.total_requests + (IF last_call'.ret THEN 1 ELSE 0)
                /\ rl'.total_failures = rl.total_failures
          /\ ReleaseFailure
             => /\ rl'.total_failures =
                      rl.total_failures
                        + (IF rl.concurrent_count > 0 THEN 1 ELSE 0)
                /\ rl'.total_requests = rl.total_requests
          /\ (ReleaseSuccess \/ Advance)
             => /\ rl'.total_failures = rl.total_failures
                /\ rl'.total_requests = rl.total_requests]_vars

\* three admitted requests, two of them released as failures, and a
\* release(false) made with no slot held that was not counted
C35_Witness ==
    /\ rl.total_requests = 3
    /\ rl.total_failures = 2
    /\ rl.concurrent_count = 0
    /\ last_call.op = "release_false" /\ ~last_call.held
    /\ get_stats(rl).failure_rate = [num |-> 2, den |-> 3]

\* the calls whose operation is under way: they hold a slot
Running == {t \in DOMAIN tasks : tasks[t].pc = "running"}

\* C36: no slot leaks from execute_with_retry: every acquire that returned
\* true is followed by exactly one release, made in the step in which the
\* operation returns, raises or is cut off, before the call acquires again
\* or ends.  So the in-flight count is the number of calls whose operation
\* is under way, and when all the calls running side by side have returned
\* or raised it is 0.
C36_NoSlotLeak ==
    /\ [](/\ rl.concurrent_count = Cardinality(Running)
          /\ \A t \in DOMAIN tasks :
                Len(tasks[t].outcomes)
                  + (IF t \in Running THEN 1 ELSE 0) = tasks[t].admitted
          /\ (\A t \in DOMAIN tasks : Ended(t)) => rl.concurrent_count = 0)
    /\ [][\A t \in DOMAIN tasks :
            /\ (t \in Running /\ tasks'[t].pc # "running")
               => /\ Len(tasks'[t].outcomes) = Len(tasks[t].outcomes) + 1
                  /\ last_call'.held
                  /\ last_call'.op =
                        IF tasks'[t].outcomes[Len(tasks'[t].outcomes)] = "ok"
                        THEN "release_true" ELSE "release_false"
                  /\ rl'.concurrent_count = rl.concurrent_count - 1
                  /\ tasks'[t].admitted = tasks[t].admitted
            /\ (t \notin Running /\ tasks'[t].pc = "running")
               => /\ last_call'.op = "acquire" /\ last_call'.ret
                  /\ rl'.concurrent_count = rl.concurrent_count + 1]_vars

\* two calls have ended, one returning and one raising after an exception
\* and a timeout; three or more requests were admitted, no slot is held
C36_Witness ==
    /\ \A t \in DOMAIN tasks : Ended(t)
    /\ \E t \in DOMAIN tasks : tasks[t].pc = "returned"
    /\ \E t \in DOMAIN tasks :
          /\ tasks[t].pc = "raised"
          /\ tasks[t].raised.type = "TimeoutError"
          /\ \E i \in DOMAIN tasks[t].outcomes :
                tasks[t].outcomes[i] = "Exception"
    /\ Cardinality(DOMAIN tasks) = 2
    /\ rl.total_requests >= 3
    /\ rl.concurrent_count = 0

\* C37: while the circuit is OPEN no release moves it: a release(true) or a
\* release(false) of a slot acquired before the circuit opened leaves the
\* state OPEN and the open timestamp and the open-count as they were, so a
\* late failure does not restart the open timer.  OPEN is left only for
\* HALF_OPEN, by an acquire made once timeout_seconds have passed.
C37_OpenIsReleaseProof ==
    [][/\ (rl.circuit_state = OPEN /\ (ReleaseSuccess \/ ReleaseFailure))
          => /\ rl'.circuit_state = OPEN
             /\ rl'.circuit_opened_at = rl.circuit_opened_at
             /\ rl'.total_circuit_opens = rl.total_circuit_opens
             /\ \A t \in Instants :
                   acquire(rl', config, t).ret
                     => t - rl.circuit_opened_at >= config.timeout_seconds
       /\ (rl.circuit_state = OPEN /\ rl'.circuit_state # OPEN)
          => /\ Acquire
             /\ rl'.circuit_state = HALF_OPEN
             /\ clock - rl.circuit_opened_at >= config.timeout_seconds]_vars

\* a slot acquired before the circuit opened was released as a failure
\* later, while the circuit was OPEN, and the open timestamp is the old one
C37_Witness ==
    /\ last_call.op = "release_false" /\ last_call.held
    /\ last_call.pre = OPEN
    /\ rl.circuit_state = OPEN
    /\ rl.circuit_opened_at < clock
    /\ rl.total_circuit_opens = 1
    /\ rl.total_failures = 2

\* C38: in every state reached through acquire and release: CLOSED implies
\* failure counter < failure_threshold; HALF_OPEN implies success counter <
\* success_threshold; OPEN or HALF_OPEN implies that an open timestamp is
\* recorded; and total_circuit_opens is the number of transitions into OPEN
\* taken so far: it starts at 0 and each step adds one exactly when it
\* enters OPEN.
C38_BreakerInvariants ==
    /\ [](/\ rl.circuit_state = CLOSED
                => /\ rl.failure_count >= 0
                   /\ rl.failure_count < config.failure_threshold
          /\ rl.circuit_state = HALF_OPEN
                => /\ rl.success_count >= 0
                   /\ rl.success_count < config.success_threshold
          /\ rl.circuit_state \in {OPEN, HALF_OPEN}
                => /\ rl.circuit_opened_at # None
                   /\ rl.circuit_opened_at <= clock
          /\ rl.total_circuit_opens = 0 <=> rl.circuit_opened_at = None)
    /\ [][rl'.total_circuit_opens =
            rl.total_circuit_opens
              + (IF rl.circuit_state # OPEN /\ rl'.circuit_state = OPEN
                 THEN 1 ELSE 0)]_vars

\* the circuit has opened twice, once from CLOSED and once by a relapse,
\* and is HALF_OPEN one success short of closing
C38_Witness ==
    /\ rl.circuit_state = HALF_OPEN
    /\ rl.total_circuit_opens = 2
    /\ config.success_threshold = 2
    /\ rl.success_count = 1

\* an acquire made in OPEN once timeout_seconds have passed, with one of
\* the three ceilings leaving no room
RefusedProbe ==
    /\ Acquire
    /\ rl.circuit_state = OPEN
    /\ clock - rl.circuit_opened_at >= config.timeout_seconds
    /\ ~CapacityAvailable(rl, config, clock)

\* C39: acquire takes the step from OPEN to HALF_OPEN before it looks at the
\* ceilings, and a refusal by a ceiling does not undo it: an acquire made
\* after timeout_seconds that the concurrency, per-minute or per-hour
\* ceiling refuses returns false, counts as rate-limited and leaves the
\* state HALF_OPEN with success counter 0 and the other breaker fields as
\* they were; from then on an acquire is admitted exactly when the ceilings
\* leave room.
C39_ProbeSurvivesRefusal ==
    [][RefusedProbe
       => /\ ~last_call'.ret
          /\ rl'.circuit_state = HALF_OPEN
          /\ rl'.success_count = 0
          /\ rl'.circuit_opened_at = rl.circuit_opened_at
          /\ rl'.total_circuit_opens = rl.total_circuit_opens
          /\ rl'.total_failures = rl.total_failures
          /\ rl'.concurrent_count = rl.concurrent_count
          /\ rl'.total_rate_limited = rl.total_rate_limited + 1
          /\ \A t \in Instants :
                t >= clock
                => (acquire(rl', config, t).ret
                      <=> CapacityAvailable(rl', config, t))]_vars

\* a probe refused by a ceiling has left the circuit HALF_OPEN
C39_Witness ==
    /\ last_call.op = "acquire" /\ ~last_call.ret
    /\ last_call.pre = OPEN
    /\ rl.circuit_state = HALF_OPEN
    /\ rl.success_count = 0
    /\ rl.total_rate_limited = 1

\* the findings held by the entries of collector_results, counted
RECURSIVE FindingCount(_)
FindingCount(collector_results) ==
    IF collector_results = <<>> THEN 0
    ELSE Len(Head(collector_results).value.findings)
           + FindingCount(Tail(collector_results))

\* the findings handed back by the collectors of the current run, counted
RECURSIVE RunFindingCount(_)
RunFindingCount(results) ==
    IF results = <<>> THEN 0
    ELSE (IF Head(results) = Raised THEN 0 ELSE Len(Head(results).findings))
           + RunFindingCount(Tail(results))

\* a step that starts a run on an orchestrator that has run before
LaterRun ==
    /\ audit.pc \in {"done", "raised"}
    /\ audit'.pc = "collecting"

\* C40: every run on the same orchestrator starts from a fresh container:
\* a later run begins with collector_results, all_findings and
\* remediation_scripts empty, and what they hold afterwards is that run's
\* data: collector_results is what the run's own results give, all_findings
\* has as many entries as the run's stored results have findings, and every
\* script belongs to a finding of the run.  The analyzer's call and error
\* counters and the limiter's windows, counters and circuit state are not
\* reset by the start of a run.
C40_FreshRun ==
    /\ [](Aggregated
            => LET ar == audit.audit_results IN
               /\ ar.collector_results =
                     store_results(<<>>, audit.collectors, audit.results)
               /\ Len(ar.all_findings) = FindingCount(ar.collector_results)
               /\ DistinctNames
                     => Len(ar.all_findings) = RunFindingCount(audit.results)
               /\ \A e \in DOMAIN ar.remediation_scripts :
                     \E i \in DOMAIN ar.all_findings :
                        /\ ar.all_findings[i].check_id
                              = ar.remediation_scripts[e].key
                        /\ ar.all_findings[i]
                              = ar.remediation_scripts[e].value.finding
               /\ Len(ar.remediation_scripts) <= audit.script_calls)
    /\ [][LaterRun
           => /\ audit'.audit_results.collector_results = <<>>
              /\ audit'.audit_results.all_findings = <<>>
              /\ audit'.audit_results.remediation_scripts = <<>>
              /\ audit'.audit_results.ai_analysis = NoAnalysis
              /\ audit'.collectors = audit.collectors
              /\ analyzer'.total_api_calls = analyzer.total_api_calls
              /\ analyzer'.total_api_errors = analyzer.total_api_errors
              /\ analyzer'.client = analyzer.client
              /\ rl' = rl]_vars

\* a later run has ended with one finding and no script, on an analyzer
\* that has called the provider more often than this run did and a limiter
\* that has admitted more requests than this run made
C40_Witness ==
    /\ audit.pc = "done"
    /\ Len(audit.audit_results.all_findings) = 1
    /\ audit.analyze_calls = 1
    /\ audit.script_calls = 0
    /\ analyzer.total_api_calls = 2
    /\ rl.total_requests >= 2
====
